---- MODULE Spec2Model ----
(***************************************************************************)
(* Funnel Finder (funnel-finder/src/lib: url.ts, robots.ts, sitemap.ts,    *)
(* crawl.ts): URL policy, robots parsing and policy, sitemap discovery,    *)
(* crawler, page scorer, funnel builder, report text and the               *)
(* check-and-score stage of runFunnelFinder.                               *)
(*                                                                         *)
(* A URL string (the result of URL.toString()) is a record                 *)
(*   [protocol, host, path, query]                                         *)
(* with query a sequence of parameters [k, enc]; enc says how the value is *)
(* percent-encoded ("raw" as written, "form" as URLSearchParams writes     *)
(* it).  Two URL strings are equal iff the records are equal.  A fragment  *)
(* exists only in hrefs and inputs: normalizeUrl and toAbsoluteUrl set     *)
(* hash = "" before toString(), and the url of a Response has none.        *)
(***************************************************************************)
EXTENDS Integers, Sequences, FiniteSets, TLC

VARIABLES
    \* crawlInternalLinks
    base, robots, maxPages, maxDepth, q, seen, found, cur, enq, cpc, crawled,
    \* buildFunnels
    adLikePages, cursor, dups, funnels, outputText, fpc,
    \* runFunnelFinder
    inputUrl, baseUrl, rules, candidates, task, checked, htmlCache,
    browser, browserFailed, outcome, requests,
    \* discoverSitemapUrls
    smSite, smQueue, foundSitemaps, smUrls, seenSm, fetchLog, smpc, smResult,
    \* parseRobots, isAllowedByRobots
    robotsTxt, parsed, cand, allowed, rpc,
    \* stripUtm
    uIn, uOut, uTwice, upc

crawlVars == <<base, robots, maxPages, maxDepth, q, seen, found, cur, enq, cpc, crawled>>
funnelVars == <<adLikePages, cursor, dups, funnels, outputText, fpc>>
runVars == <<inputUrl, baseUrl, rules, candidates, task, checked, htmlCache,
             browser, browserFailed, outcome, requests>>
smVars == <<smSite, smQueue, foundSitemaps, smUrls, seenSm, fetchLog, smpc, smResult>>
rbVars == <<robotsTxt, parsed, cand, allowed, rpc>>
urlVars == <<uIn, uOut, uTwice, upc>>
vars == <<crawlVars, funnelVars, runVars, smVars, rbVars, urlVars>>

(***************************************************************************)
(* Bounds                                                                  *)
(***************************************************************************)
MaxPagesArg == 3        \* largest maxPages argument tried
MaxDepthArg == 2        \* largest maxDepth argument tried
MaxLinks == 2           \* anchors per crawled document
MaxDup == 1             \* findings that repeat the finalUrl of the one before
DupPages == 2           \* pages of FunnelPaths that may be scored twice
MaxCandidates == 3      \* candidates of one run

(***************************************************************************)
(* Strings                                                                 *)
(***************************************************************************)
Includes(s, h) ==
    \E i \in 1..(Len(s) - Len(h) + 1) : SubSeq(s, i, i + Len(h) - 1) = h

StartsWith(s, h) == Len(h) <= Len(s) /\ SubSeq(s, 1, Len(h)) = h

EndsWith(s, h) == Len(h) <= Len(s) /\ SubSeq(s, Len(s) - Len(h) + 1, Len(s)) = h

\* Array.from(new Set(xs)): first occurrences, insertion order
ArrayFromSet(xs) ==
    LET firsts == {i \in 1..Len(xs) : \A j \in 1..(i - 1) : xs[j] # xs[i]}
    IN [k \in 1..Cardinality(firsts) |->
          xs[CHOOSE i \in firsts : Cardinality({j \in firsts : j <= i}) = k]]

Range(xs) == {xs[i] : i \in 1..Len(xs)}

(***************************************************************************)
(* url.ts                                                                  *)
(***************************************************************************)
Url(pr, h, p, qy) == [protocol |-> pr, host |-> h, path |-> p, query |-> qy]

NoUrl == [protocol |-> "", host |-> "", path |-> "", query |-> <<>>]   \* null

Param(k, e) == [k |-> k, enc |-> e]

utmKeys ==
    {"utm_source", "utm_medium", "utm_campaign", "utm_term", "utm_content",
     "gclid", "fbclid", "msclkid", "ttclid", "twclid", "li_fat_id", "wbraid", "gbraid"}

\* only the first denylisted parameter is deleted
DeleteKeys_FirstOnly(qy) ==
    LET hit == {i \in 1..Len(qy) : qy[i].k \in utmKeys}
        first == CHOOSE i \in hit : \A j \in hit : i <= j
        kept == IF hit = {} THEN qy
                ELSE SubSeq(qy, 1, first - 1) \o SubSeq(qy, first + 1, Len(qy))
    IN [i \in 1..Len(kept) |-> Param(kept[i].k, "form")]

RECURSIVE DeleteKeys(_)
\* utmKeys.forEach(k => u.searchParams.delete(k)); every delete rewrites the
\* query from the parameter list, so what is left is form-encoded
DeleteKeys(qy) ==
    IF qy = <<>> THEN <<>>
    ELSE IF Head(qy).k \in utmKeys THEN DeleteKeys(Tail(qy))
         ELSE <<Param(Head(qy).k, "form")>> \o DeleteKeys(Tail(qy))

stripUtm(u) == [u EXCEPT !.query = DeleteKeys(u.query)]

sameOrigin(a, b) == a.protocol = b.protocol /\ a.host = b.host

\* An href attribute: kind "abs" (absolute URL), "rel" (path-absolute
\* reference), "frag" (#section), "scheme" (mailto:, tel:, javascript:),
\* "empty", "bad" (new URL throws).
Href(kd, pr, h, p, qy, hash) ==
    [kind |-> kd, protocol |-> pr, host |-> h, path |-> p, query |-> qy, hash |-> hash]

toAbsoluteUrl(b, href) ==
    CASE href.kind \in {"empty", "frag", "scheme", "bad"} -> NoUrl
      [] href.kind = "abs" -> Url(href.protocol, href.host, href.path, href.query)
      [] href.kind = "rel" -> Url(b.protocol, b.host, href.path, href.query)

\* only the empty input is rejected
normalizeThrows_EmptyOnly(input) == input.kind = "empty"

\* normalizeUrl input: kind "abs" (has http(s)://), "noscheme", "empty"
\* (blank after trim), "bad" (new URL throws)
normalizeThrows(input) == input.kind \in {"empty", "bad"}

normalizeUrl(input) ==
    IF input.kind = "abs"
    THEN Url(input.protocol, input.host, input.path, input.query)
    ELSE Url("https:", input.host, input.path, input.query)

(***************************************************************************)
(* robots.ts                                                               *)
(***************************************************************************)
Rules(sm, dis) == [sitemaps |-> sm, disallow |-> dis]

\* the origin test is left out
isAllowedByRobots_NoOrigin(b, rs, candidateUrl) ==
    \A i \in 1..Len(rs.disallow) :
        \/ rs.disallow[i] = ""
        \/ ~StartsWith(candidateUrl.path, rs.disallow[i])

isAllowedByRobots(b, rs, candidateUrl) ==
    /\ sameOrigin(b, candidateUrl)
    /\ \A i \in 1..Len(rs.disallow) :
          \/ rs.disallow[i] = ""
          \/ ~StartsWith(candidateUrl.path, rs.disallow[i])

(***************************************************************************)
(* crawl.ts: heuristics                                                    *)
(***************************************************************************)
EXCLUDE_KEYWORDS ==
    {"faq", "faqs", "blog", "posts", "article", "news",
     "privacy", "terms", "legal", "policy", "cookies",
     "contact", "about", "team", "careers", "jobs", "support", "help",
     "refund", "returns", "shipping", "track-order",
     "documentation", "docs", "knowledge-base"}

FUNNEL_URL_HINTS ==
    {"lp", "landing", "offer", "vsl", "webinar", "quiz",
     "apply", "book", "call", "schedule",
     "pricing", "checkout", "order", "pay", "cart",
     "thank", "success", "confirm", "complete"}

CONVERSION_HINTS ==
    {"checkout", "order", "pay", "cart", "thank", "success", "confirm", "complete"}

ASSET_EXTENSIONS ==
    {".png", ".jpg", ".jpeg", ".gif", ".webp", ".svg", ".ico", ".css", ".js",
     ".map", ".pdf", ".zip", ".mp4", ".mov", ".webm"}

LowerOf ==
    ("A" :> "a") @@ ("B" :> "b") @@ ("C" :> "c") @@ ("D" :> "d") @@ ("E" :> "e") @@
    ("F" :> "f") @@ ("G" :> "g") @@ ("H" :> "h") @@ ("I" :> "i") @@ ("J" :> "j") @@
    ("K" :> "k") @@ ("L" :> "l") @@ ("M" :> "m") @@ ("N" :> "n") @@ ("O" :> "o") @@
    ("P" :> "p") @@ ("Q" :> "q") @@ ("R" :> "r") @@ ("S" :> "s") @@ ("T" :> "t") @@
    ("U" :> "u") @@ ("V" :> "v") @@ ("W" :> "w") @@ ("X" :> "x") @@ ("Y" :> "y") @@
    ("Z" :> "z")

LowerChar(c) == IF c \in DOMAIN LowerOf THEN LowerOf[c] ELSE c

RECURSIVE toLowerCase(_)
toLowerCase(s) ==
    IF Len(s) = 0 THEN ""
    ELSE LowerChar(SubSeq(s, 1, 1)) \o toLowerCase(SubSeq(s, 2, Len(s)))

looksExcluded(url) ==
    LET path == toLowerCase(url.path) IN
    \/ \E e \in ASSET_EXTENSIONS : EndsWith(path, e)
    \/ \E k \in EXCLUDE_KEYWORDS :
          \/ Includes(path, "/" \o k)
          \/ Includes(path, "-" \o k)
          \/ Includes(path, k \o "-")

isProbablyConversion(url) ==
    LET p == toLowerCase(url.path) IN \E h \in CONVERSION_HINTS : Includes(p, h)

(***************************************************************************)
(* crawl.ts: crawlInternalLinks                                            *)
(*   q, seen, found: the locals of the function; cur: the page whose       *)
(*   anchors are being visited; enq: every URL ever pushed on q (history); *)
(*   cpc: "loop" at the while test, "each" inside $("a[href]").each,       *)
(*   "done" after return; crawled: the returned array.                     *)
(***************************************************************************)
maxQueue == 5000

SiteHost == "a.test"

SeedInputs ==
    {Href("abs", "https:", SiteHost, "/", <<>>, ""),
     Href("abs", "https:", SiteHost, "/", <<Param("utm_source", "raw")>>, "")}

CrawlRules ==
    {Rules(<<>>, <<>>), Rules(<<>>, <<"/admin">>), Rules(<<>>, <<"/private", "/lp">>)}

CrawlHrefs ==
    {Href("rel", "", "", "/", <<>>, ""),
     Href("rel", "", "", "/lp", <<>>, ""),
     Href("rel", "", "", "/lp", <<Param("utm_source", "raw")>>, ""),
     Href("rel", "", "", "/Checkout", <<>>, "pay"),
     Href("rel", "", "", "/offer", <<Param("id", "raw")>>, ""),
     Href("rel", "", "", "/blog", <<>>, ""),
     Href("rel", "", "", "/admin/x", <<>>, ""),
     Href("abs", "http:", SiteHost, "/lp", <<>>, ""),
     Href("abs", "https:", "b.test", "/lp", <<>>, ""),
     Href("frag", "", "", "", <<>>, "top")}

CrawlIdle ==
    /\ base = NoUrl /\ robots = Rules(<<>>, <<>>) /\ maxPages = 0 /\ maxDepth = 0
    /\ q = <<>> /\ seen = {} /\ found = <<>>
    /\ cur = [url |-> NoUrl, depth |-> 0, n |-> 0]
    /\ enq = <<>> /\ cpc = "idle" /\ crawled = <<>>

CrawlStart ==
    /\ \E input \in SeedInputs : base = normalizeUrl(input)
    /\ robots \in CrawlRules
    /\ maxPages \in 1..MaxPagesArg
    /\ maxDepth \in 0..MaxDepthArg
    /\ q = <<[url |-> base, depth |-> 0]>>
    /\ seen = {stripUtm(base)}
    /\ found = <<>>
    /\ cur = [url |-> NoUrl, depth |-> 0, n |-> 0]
    /\ enq = <<base>>
    /\ cpc = "loop"
    /\ crawled = <<>>

\* the loop goes on with maxQueue URLs pending
CrawlCond_QueueAbove == Len(q) > 0 /\ Len(found) < maxPages /\ Len(q) <= maxQueue

\* the page budget is not tested
CrawlCond_NoBudget == Len(q) > 0 /\ Len(q) < maxQueue

CrawlCond == Len(q) > 0 /\ Len(found) < maxPages /\ Len(q) < maxQueue

\* robots says no: continue
CrawlDrop ==
    /\ cpc = "loop" /\ CrawlCond
    /\ ~isAllowedByRobots(base, robots, Head(q).url)
    /\ q' = Tail(q)
    /\ UNCHANGED <<base, robots, maxPages, maxDepth, seen, found, cur, enq, cpc, crawled>>
    /\ UNCHANGED <<funnelVars, runVars, smVars, rbVars, urlVars>>

\* the robots test is left out
CrawlEmitLeaf_NoRobots ==
    /\ cpc = "loop" /\ CrawlCond
    /\ Head(q).depth >= maxDepth
    /\ found' = Append(found, Head(q).url)
    /\ q' = Tail(q)
    /\ UNCHANGED <<base, robots, maxPages, maxDepth, seen, cur, enq, cpc, crawled>>
    /\ UNCHANGED <<funnelVars, runVars, smVars, rbVars, urlVars>>

\* found.push(url); depth >= maxDepth: continue
CrawlEmitLeaf ==
    /\ cpc = "loop" /\ CrawlCond
    /\ isAllowedByRobots(base, robots, Head(q).url)
    /\ Head(q).depth >= maxDepth
    /\ found' = Append(found, Head(q).url)
    /\ q' = Tail(q)
    /\ UNCHANGED <<base, robots, maxPages, maxDepth, seen, cur, enq, cpc, crawled>>
    /\ UNCHANGED <<funnelVars, runVars, smVars, rbVars, urlVars>>

\* found.push(url); fetchHtmlWithFallback throws: continue
CrawlFetchThrows ==
    /\ cpc = "loop" /\ CrawlCond
    /\ isAllowedByRobots(base, robots, Head(q).url)
    /\ Head(q).depth < maxDepth
    /\ found' = Append(found, Head(q).url)
    /\ q' = Tail(q)
    /\ UNCHANGED <<base, robots, maxPages, maxDepth, seen, cur, enq, cpc, crawled>>
    /\ UNCHANGED <<funnelVars, runVars, smVars, rbVars, urlVars>>

\* the depth test is left out
CrawlFetched_AnyDepth ==
    /\ cpc = "loop" /\ CrawlCond
    /\ isAllowedByRobots(base, robots, Head(q).url)
    /\ found' = Append(found, Head(q).url)
    /\ q' = Tail(q)
    /\ cur' = [url |-> Head(q).url, depth |-> Head(q).depth, n |-> 0]
    /\ cpc' = "each"
    /\ UNCHANGED <<base, robots, maxPages, maxDepth, seen, enq, crawled>>
    /\ UNCHANGED <<funnelVars, runVars, smVars, rbVars, urlVars>>

\* found.push(url); the document (possibly "") is loaded
CrawlFetched ==
    /\ cpc = "loop" /\ CrawlCond
    /\ isAllowedByRobots(base, robots, Head(q).url)
    /\ Head(q).depth < maxDepth
    /\ found' = Append(found, Head(q).url)
    /\ q' = Tail(q)
    /\ cur' = [url |-> Head(q).url, depth |-> Head(q).depth, n |-> 0]
    /\ cpc' = "each"
    /\ UNCHANGED <<base, robots, maxPages, maxDepth, seen, enq, crawled>>
    /\ UNCHANGED <<funnelVars, runVars, smVars, rbVars, urlVars>>

\* seen.add(norm) is left out
CrawlAnchor_NoSeenAdd(href) ==
    /\ cpc = "each" /\ cur.n < MaxLinks
    /\ cur' = [cur EXCEPT !.n = @ + 1]
    /\ LET abs == toAbsoluteUrl(cur.url, href)
           norm == stripUtm(abs)
       IN IF abs = NoUrl \/ ~sameOrigin(base, abs) \/ norm \in seen
          THEN UNCHANGED <<q, seen, enq>>
          ELSE /\ seen' = seen
               /\ IF ~looksExcluded(norm)
                  THEN /\ q' = Append(q, [url |-> norm, depth |-> cur.depth + 1])
                       /\ enq' = Append(enq, norm)
                  ELSE UNCHANGED <<q, enq>>
    /\ UNCHANGED <<base, robots, maxPages, maxDepth, found, cpc, crawled>>
    /\ UNCHANGED <<funnelVars, runVars, smVars, rbVars, urlVars>>

\* one callback of $("a[href]").each
CrawlAnchor(href) ==
    /\ cpc = "each" /\ cur.n < MaxLinks
    /\ cur' = [cur EXCEPT !.n = @ + 1]
    /\ LET abs == toAbsoluteUrl(cur.url, href)
           norm == stripUtm(abs)
       IN IF abs = NoUrl \/ ~sameOrigin(base, abs) \/ norm \in seen
          THEN UNCHANGED <<q, seen, enq>>
          ELSE /\ seen' = seen \cup {norm}
               /\ IF ~looksExcluded(norm)
                  THEN /\ q' = Append(q, [url |-> norm, depth |-> cur.depth + 1])
                       /\ enq' = Append(enq, norm)
                  ELSE UNCHANGED <<q, enq>>
    /\ UNCHANGED <<base, robots, maxPages, maxDepth, found, cpc, crawled>>
    /\ UNCHANGED <<funnelVars, runVars, smVars, rbVars, urlVars>>

\* the document has no further anchor
CrawlEachDone ==
    /\ cpc = "each"
    /\ cpc' = "loop"
    /\ UNCHANGED <<base, robots, maxPages, maxDepth, q, seen, found, cur, enq, crawled>>
    /\ UNCHANGED <<funnelVars, runVars, smVars, rbVars, urlVars>>

\* the while test fails: return Array.from(new Set(found))
CrawlReturn ==
    /\ cpc = "loop" /\ ~CrawlCond
    /\ crawled' = ArrayFromSet(found)
    /\ cpc' = "done"
    /\ UNCHANGED <<base, robots, maxPages, maxDepth, q, seen, found, cur, enq>>
    /\ UNCHANGED <<funnelVars, runVars, smVars, rbVars, urlVars>>

CrawlSteps ==
    \/ CrawlDrop
    \/ CrawlEmitLeaf
    \/ CrawlFetchThrows
    \/ CrawlFetched
    \/ \E href \in CrawlHrefs : CrawlAnchor(href)
    \/ CrawlEachDone
    \/ CrawlReturn


(***************************************************************************)
(* crawl.ts: scorePage                                                     *)
(* A document is a record: anchors (the a[href] elements in document       *)
(* order, each with its href, whether it is button-like and whether its    *)
(* text has a CTA phrase), filler (further a[href] elements with a mailto: *)
(* href and no CTA text), trackingHits (TRACKING_HINTS found in the        *)
(* markup), formCount, noindex, buttons (button elements with CTA text).   *)
(* The empty document "" is EmptyDoc.                                      *)
(***************************************************************************)
Anchor(href, btn, cta) == [href |-> href, buttonish |-> btn, ctaText |-> cta]

Doc(anchors, filler, tracking, forms, noindex, buttons) ==
    [anchors |-> anchors, filler |-> filler, trackingHits |-> tracking,
     formCount |-> forms, noindex |-> noindex, buttons |-> buttons]

EmptyDoc == Doc(<<>>, 0, 0, 0, FALSE, 0)

Min(a, b) == IF a < b THEN a ELSE b

RECURSIVE CtaAnchors(_, _)
\* the anchors that add to ctaLinksSet, in document order
CtaAnchors(url, anchors) ==
    IF anchors = <<>> THEN <<>>
    ELSE LET a == Head(anchors)
             abs == toAbsoluteUrl(url, a.href)
         IN (IF abs # NoUrl /\ a.buttonish /\ (a.ctaText \/ isProbablyConversion(abs))
             THEN <<stripUtm(abs)>> ELSE <<>>) \o CtaAnchors(url, Tail(anchors))

RECURSIVE OutAnchors(_, _)
OutAnchors(url, anchors) ==
    IF anchors = <<>> THEN <<>>
    ELSE LET abs == toAbsoluteUrl(url, Head(anchors).href)
         IN (IF abs # NoUrl THEN <<stripUtm(abs)>> ELSE <<>>) \o OutAnchors(url, Tail(anchors))

scorePage(url, html) ==
    LET path == toLowerCase(url.path)
        urlHints == Cardinality({h \in FUNNEL_URL_HINTS : Includes(path, h)})
        ctaList == CtaAnchors(url, html.anchors)
        ctaHits == Len(ctaList) + html.buttons
        linkCount == Len(html.anchors) + html.filler
    IN [score |->
            8 * urlHints
            + (IF html.trackingHits > 0 THEN Min(20, html.trackingHits * 6) ELSE 0)
            + (IF html.formCount > 0 THEN Min(24, 12 + html.formCount * 3) ELSE 0)
            + (IF html.noindex THEN 6 ELSE 0)
            + (IF ctaHits > 0 THEN Min(18, ctaHits * 6) ELSE 0)
            + (IF linkCount <= 35 THEN 6 ELSE 0),
        ctaLinks |-> ArrayFromSet(ctaList),
        allOutLinks |-> ArrayFromSet(OutAnchors(url, html.anchors))]

\* .filter(l => sameOrigin(baseUrl, l)).filter(l => !looksExcluded(l))
InternalLinks(b, links) ==
    SelectSeq(links, LAMBDA l : sameOrigin(b, l) /\ ~looksExcluded(l))

\* the PageFinding pushed on checked
PageFinding(b, url, finalUrl, status, html) ==
    LET scored == scorePage(finalUrl, html)
    IN [url |-> url, finalUrl |-> finalUrl, status |-> status, score |-> scored.score,
        ctaLinks |-> InternalLinks(b, scored.ctaLinks),
        allOutLinks |-> InternalLinks(b, scored.allOutLinks)]

(***************************************************************************)
(* crawl.ts: buildFunnels                                                  *)
(***************************************************************************)
maxSteps == 5

AdLikeThreshold == 18

\* new Map(adPages.map(p => [p.finalUrl, p])): the keys
ByUrlKeys(adPages) == {adPages[i].finalUrl : i \in 1..Len(adPages)}

\* byUrl.get(u): the last page with that finalUrl
ByUrlGet(adPages, u) ==
    adPages[CHOOSE i \in 1..Len(adPages) :
                /\ adPages[i].finalUrl = u
                /\ \A j \in (i + 1)..Len(adPages) : adPages[j].finalUrl # u]

\* the other links come first, then the CTA links
Adj_OthersFirst(adPages, u) ==
    IF u \notin ByUrlKeys(adPages) THEN <<>>
    ELSE LET p == ByUrlGet(adPages, u)
             keys == ByUrlKeys(adPages)
             ctas == SelectSeq(p.ctaLinks, LAMBDA l : l \in keys)
             others == SelectSeq(p.allOutLinks,
                                 LAMBDA l : l \in keys /\ l \notin Range(ctas))
         IN others \o ctas

\* adj.get(u): CTA links first, then the other links; the last
\* adj.set for a finalUrl stays
Adj(adPages, u) ==
    IF u \notin ByUrlKeys(adPages) THEN <<>>
    ELSE LET p == ByUrlGet(adPages, u)
             keys == ByUrlKeys(adPages)
             ctas == SelectSeq(p.ctaLinks, LAMBDA l : l \in keys)
             others == SelectSeq(p.allOutLinks,
                                 LAMBDA l : l \in keys /\ l \notin Range(ctas))
         IN ctas \o others

RECURSIVE Visit(_, _, _, _)
\* for (const nxt of adj.get(cur) || []) { ... }
Visit(succs, c, d, st) ==
    IF succs = <<>> THEN st
    ELSE LET nxt == Head(succs)
         IN IF nxt \in st.visited THEN Visit(Tail(succs), c, d, st)
            ELSE Visit(Tail(succs), c, d,
                       [queue |-> Append(st.queue, nxt),
                        visited |-> st.visited \cup {nxt},
                        parent |-> (nxt :> c) @@ st.parent,
                        depth |-> (nxt :> d + 1) @@ st.depth])

RECURSIVE Bfs_NoBudget(_, _, _)
\* the depth test d > maxSteps is left out
Bfs_NoBudget(adPages, start, st) ==
    IF st.queue = <<>> THEN [foundConv |-> NoUrl, parent |-> st.parent]
    ELSE LET c == Head(st.queue)
             d == st.depth[c]
             rest == [st EXCEPT !.queue = Tail(st.queue)]
         IN IF c # start /\ isProbablyConversion(c)
            THEN [foundConv |-> c, parent |-> st.parent]
            ELSE Bfs_NoBudget(adPages, start, Visit(Adj(adPages, c), c, d, rest))

RECURSIVE Bfs(_, _, _)
\* while (queue.length) { ... }; the result is [foundConv, parent]
Bfs(adPages, start, st) ==
    IF st.queue = <<>> THEN [foundConv |-> NoUrl, parent |-> st.parent]
    ELSE LET c == Head(st.queue)
             d == st.depth[c]
             rest == [st EXCEPT !.queue = Tail(st.queue)]
         IN IF d > maxSteps THEN Bfs(adPages, start, rest)
            ELSE IF c # start /\ isProbablyConversion(c)
                 THEN [foundConv |-> c, parent |-> st.parent]
                 ELSE Bfs(adPages, start, Visit(Adj(adPages, c), c, d, rest))

RECURSIVE PathBack(_, _, _)
\* while (cur && cur !== start.finalUrl) { steps.push(cur); cur = parent.get(cur) || null }
PathBack(c, start, parent) ==
    IF c = NoUrl \/ c = start THEN <<>>
    ELSE <<c>> \o PathBack(parent[c], start, parent)

RECURSIVE Reverse(_)
Reverse(xs) == IF xs = <<>> THEN <<>> ELSE Append(Reverse(Tail(xs)), Head(xs))

\* Math.round(10 / n) for n >= 1; the other summands are integers
RoundTenOver(n) == (20 + n) \div (2 * n)

\* the landing score is left out of the sum
Confidence_NoLanding(startScore, convScore, steps) ==
    Min(100, convScore + (IF Len(steps) # 0 THEN RoundTenOver(Len(steps)) ELSE 0))

\* Math.round(Math.min(100, 2 * start.score + convScore + bonus))
Confidence(startScore, convScore, steps) ==
    Min(100, startScore * 2 + convScore
             + (IF Len(steps) # 0 THEN RoundTenOver(Len(steps)) ELSE 0))

\* a landing candidate that matches the conversion heuristic is not skipped
FunnelFrom_ConvLanding(adPages, start) ==
    IF start.score < AdLikeThreshold THEN <<>>
    ELSE LET r == Bfs(adPages, start.finalUrl,
                      [queue |-> <<start.finalUrl>>,
                       visited |-> {start.finalUrl},
                       parent |-> (start.finalUrl :> NoUrl),
                       depth |-> (start.finalUrl :> 0)])
         IN IF r.foundConv = NoUrl THEN <<>>
            ELSE LET steps == Reverse(PathBack(r.foundConv, start.finalUrl, r.parent))
                     convPage == ByUrlGet(adPages, r.foundConv)
                 IN <<[landing |-> start.finalUrl,
                       steps |-> steps,
                       conversion |-> r.foundConv,
                       confidence |-> Confidence(start.score, convPage.score, steps)]>>

\* the funnel pushed for one landing candidate, <<>> when it is skipped
FunnelFrom(adPages, start) ==
    IF start.score < AdLikeThreshold \/ isProbablyConversion(start.finalUrl) THEN <<>>
    ELSE LET r == Bfs(adPages, start.finalUrl,
                      [queue |-> <<start.finalUrl>>,
                       visited |-> {start.finalUrl},
                       parent |-> (start.finalUrl :> NoUrl),
                       depth |-> (start.finalUrl :> 0)])
         IN IF r.foundConv = NoUrl THEN <<>>
            ELSE LET steps == Reverse(PathBack(r.foundConv, start.finalUrl, r.parent))
                     convPage == ByUrlGet(adPages, r.foundConv)
                 IN <<[landing |-> start.finalUrl,
                       steps |-> steps,
                       conversion |-> r.foundConv,
                       confidence |-> Confidence(start.score, convPage.score, steps)]>>

RECURSIVE RawFunnels(_, _)
\* for (const start of adPages) { ... funnels.push(...) }
RawFunnels(adPages, i) ==
    IF i > Len(adPages) THEN <<>>
    ELSE FunnelFrom(adPages, adPages[i]) \o RawFunnels(adPages, i + 1)

RECURSIVE InsertByConfidence(_, _)
\* stable insertion into a list sorted by b.confidence - a.confidence
InsertByConfidence(sorted, f) ==
    IF sorted = <<>> THEN <<f>>
    ELSE IF Head(sorted).confidence >= f.confidence
         THEN <<Head(sorted)>> \o InsertByConfidence(Tail(sorted), f)
         ELSE <<f>> \o sorted

RECURSIVE SortByConfidence(_, _)
SortByConfidence(fs, acc) ==
    IF fs = <<>> THEN acc
    ELSE SortByConfidence(Tail(fs), InsertByConfidence(acc, Head(fs)))

\* no funnel is filtered out
DedupeFunnels_KeepAll(fs, keys) == fs

RECURSIVE DedupeFunnels(_, _)
\* .filter(f => { key = landing -> conversion; ... })
DedupeFunnels(fs, keys) ==
    IF fs = <<>> THEN <<>>
    ELSE LET key == <<Head(fs).landing, Head(fs).conversion>>
         IN IF key \in keys THEN DedupeFunnels(Tail(fs), keys)
            ELSE <<Head(fs)>> \o DedupeFunnels(Tail(fs), keys \cup {key})

buildFunnels(adPages) ==
    DedupeFunnels(SortByConfidence(RawFunnels(adPages, 1), <<>>), {})

(***************************************************************************)
(* crawl.ts: formatOutputText.  The report is kept as the array `lines`;   *)
(* the returned string is lines.join("\n"), and no line holds a newline.   *)
(***************************************************************************)
\* the value every parameter of the model carries is "a b": written as it
\* stands in the href ("raw") or as URLSearchParams serializes it ("form")
ParamString(pm) == pm.k \o "=" \o (IF pm.enc = "raw" THEN "a%20b" ELSE "a+b")

RECURSIVE Join(_, _)
\* Array.prototype.join
Join(xs, sep) ==
    IF xs = <<>> THEN ""
    ELSE IF Len(xs) = 1 THEN Head(xs)
         ELSE Head(xs) \o sep \o Join(Tail(xs), sep)

\* the characters of a URL string
UrlString(u) ==
    u.protocol \o "//" \o u.host \o u.path
    \o (IF u.query = <<>> THEN ""
        ELSE "?" \o Join([i \in 1..Len(u.query) |-> ParamString(u.query[i])], "&"))

\* the chain is [f.landing, ...f.steps, f.conversion]
FunnelLine_WithConversion(f) ==
    LET nodes == <<f.landing>> \o f.steps \o <<f.conversion>>
        chain == Join([i \in 1..Len(nodes) |-> UrlString(nodes[i])], " -> ")
    IN "- [" \o ToString(f.confidence) \o "] " \o chain

\* `- [${f.confidence}] ${chain}`
FunnelLine(f) ==
    LET chain == Join([i \in 1..(1 + Len(f.steps)) |->
                          UrlString((<<f.landing>> \o f.steps)[i])], " -> ")
    IN "- [" \o ToString(f.confidence) \o "] " \o chain

\* `- (${p.score}) ${p.finalUrl}`
PageLine(pg) == "- (" \o ToString(pg.score) \o ") " \o UrlString(pg.finalUrl)

FunnelsHeading == "## Funnels (landing -> ... -> conversion)"

PagesHeading == "## Ad-like Pages (best candidates for ads)"

formatOutputText(b, pages, fs) ==
    <<"# Funnel Finder Output", "Base: " \o UrlString(b), "">>
    \o <<FunnelsHeading>>
    \o (IF fs = <<>> THEN <<"(none found)">>
        ELSE [k \in 1..Len(fs) |-> FunnelLine(fs[k])])
    \o <<"", PagesHeading>>
    \o (IF pages = <<>> THEN <<"(none)">>
        ELSE [k \in 1..Len(pages) |-> PageLine(pages[k])])

(***************************************************************************)
(* Inputs of buildFunnels: a list of PageFindings made by scorePage from   *)
(* the pages of a site.  The pages are visited in the order of            *)
(* FunnelPaths; each is scored on one of its documents, the optional ones  *)
(* may be left out, and the first DupPages ones may be scored twice.       *)
(***************************************************************************)
FunnelBase == Url("https:", SiteHost, "/", <<>>)

PageUrl(path) == Url("https:", SiteHost, path, <<>>)

Link(path) == Anchor(Href("rel", "", "", path, <<>>, ""), FALSE, FALSE)

CtaLink(path, cta) ==
    Anchor(Href("rel", "", "", path, <<Param("utm_source", "raw")>>, ""), TRUE, cta)

Rich(anchors) == Doc(anchors, 0, 4, 4, TRUE, 3)
Mid(anchors) == Doc(anchors, 0, 0, 1, FALSE, 0)
Poor(anchors) == Doc(anchors, 0, 0, 0, FALSE, 0)
Busy(anchors) == Doc(anchors, 40, 1, 0, FALSE, 0)

FunnelPaths ==
    <<"/landing-offer-quiz-apply", "/lp", "/s1", "/s2", "/s3", "/s4", "/s5",
      "/checkout", "/Thank-You">>

NPages == Len(FunnelPaths)

DocsOf(i) ==
    CASE i = 1 -> {Rich(<<CtaLink("/checkout", FALSE)>>),
                   Mid(<<Link("/Thank-You"), CtaLink("/checkout", TRUE)>>),
                   Poor(<<Link("/s1")>>)}
      [] i = 2 -> {Mid(<<Link("/s1")>>),
                   Mid(<<Link("/s1"), Link("/s2")>>),
                   Poor(<<Link("/checkout")>>)}
      [] i \in {3, 6} -> {Mid(<<Link(FunnelPaths[i + 1])>>),
                          Poor(<<Link(FunnelPaths[i + 1]), Link("/lp")>>)}
      [] i \in {4, 5} -> {Mid(<<Link(FunnelPaths[i + 1])>>)}
      [] i = 7 -> {Mid(<<Link("/checkout")>>),
                   Mid(<<Link("/Thank-You"), Link("/s1")>>)}
      [] i = 8 -> {Mid(<<Link("/Thank-You")>>), Poor(<<>>)}
      [] i = 9 -> {Busy(<<>>), Rich(<<>>)}

OptionalPages == {1, 2, 7, 8, 9}

FunnelIdle ==
    /\ adLikePages = <<>> /\ cursor = 0 /\ dups = 0
    /\ funnels = <<>> /\ outputText = <<>> /\ fpc = "idle"

FunnelStart ==
    /\ adLikePages = <<>>
    /\ cursor = 1
    /\ dups = 0
    /\ funnels = <<>>
    /\ outputText = <<>>
    /\ fpc = "input"

\* checked.push({...}) for the page at the cursor
AddFinding(html) ==
    /\ fpc = "input" /\ cursor <= NPages
    /\ LET u == PageUrl(FunnelPaths[cursor])
       IN adLikePages' = Append(adLikePages, PageFinding(FunnelBase, u, u, 200, html))
    /\ cursor' = cursor + 1
    /\ UNCHANGED <<dups, funnels, outputText, fpc>>
    /\ UNCHANGED <<crawlVars, runVars, smVars, rbVars, urlVars>>

\* a second candidate resolves to the finalUrl of the finding before
AddDuplicate(html) ==
    /\ fpc = "input" /\ cursor > 1 /\ cursor - 1 <= DupPages /\ dups < MaxDup
    /\ adLikePages # <<>>
    /\ adLikePages[Len(adLikePages)].finalUrl = PageUrl(FunnelPaths[cursor - 1])
    /\ LET u == adLikePages[Len(adLikePages)].finalUrl
       IN adLikePages' = Append(adLikePages, PageFinding(FunnelBase, u, u, 200, html))
    /\ dups' = dups + 1
    /\ UNCHANGED <<cursor, funnels, outputText, fpc>>
    /\ UNCHANGED <<crawlVars, runVars, smVars, rbVars, urlVars>>

\* the page at the cursor yields no finding
SkipPage ==
    /\ fpc = "input" /\ cursor <= NPages /\ cursor \in OptionalPages
    /\ cursor' = cursor + 1
    /\ UNCHANGED <<adLikePages, dups, funnels, outputText, fpc>>
    /\ UNCHANGED <<crawlVars, runVars, smVars, rbVars, urlVars>>

\* const funnels = buildFunnels(adLikePages)
BuildFunnels ==
    /\ fpc = "input" /\ cursor = NPages + 1
    /\ funnels' = buildFunnels(adLikePages)
    /\ outputText' = formatOutputText(FunnelBase, adLikePages, funnels')
    /\ fpc' = "built"
    /\ UNCHANGED <<adLikePages, cursor, dups>>
    /\ UNCHANGED <<crawlVars, runVars, smVars, rbVars, urlVars>>

FunnelSteps ==
    \/ \E i \in 1..NPages : \E html \in DocsOf(i) : i = cursor /\ AddFinding(html)
    \/ \E i \in 1..NPages : \E html \in DocsOf(i) : i = cursor - 1 /\ AddDuplicate(html)
    \/ SkipPage
    \/ BuildFunnels

(***************************************************************************)
(* sitemap.ts: discoverSitemapUrls.                                        *)
(*   A <loc> value and a sitemap URL are strings: here an Href with the    *)
(*   flag ws (white space around it, removed by trim()).  An XML text is   *)
(*   [root, locs]: the root element and the loc of each entry, NoLoc for   *)
(*   an entry without <loc>.                                               *)
(*   smQueue, foundSitemaps, smUrls, seenSm: the locals queue,             *)
(*   foundSitemaps, urls, seenSm; fetchLog: every fetchText call and       *)
(*   whether it returned a text (history); smpc: "loop" at the while test, *)
(*   "done" after return; smResult: the returned object.                   *)
(***************************************************************************)
maxSitemapsToFetch == 20

SmChildren == 24        \* sitemaps under the root of the large sites

Loc(path, ws) == [href |-> Href("abs", "https:", SiteHost, path, <<>>, ""), ws |-> ws]

NoLoc == [href |-> Href("empty", "", "", "", <<>>, ""), ws |-> FALSE]

trim(l) == [l EXCEPT !.ws = FALSE]

Xml(root, locs) == [root |-> root, locs |-> locs]

NoText == Xml("", <<>>)     \* null, or the empty string

\* { urls, childSitemaps }: the trimmed loc strings of urlset.url and of
\* sitemapindex.sitemap; a text that is neither has none
parseSitemapXml(xml) ==
    LET strings == SelectSeq(xml.locs, LAMBDA l : l # NoLoc)
        trimmed == [i \in 1..Len(strings) |-> trim(strings[i])]
    IN [urls |-> IF xml.root = "urlset" THEN trimmed ELSE <<>>,
        childSitemaps |-> IF xml.root = "sitemapindex" THEN trimmed ELSE <<>>]

SmName(n) == "/sm-" \o ToString(n) \o ".xml"

PageName(n) == "/p" \o ToString(n)

SmSites == {"index", "chain", "wide", "cycle", "dead"}

\* the text the site serves at sitemap URL sm, NoText if it serves none
SiteXml(site, sm) ==
    LET path == sm.href.path IN
    CASE site = "index" /\ path = "/sitemap.xml" ->
            Xml("sitemapindex", <<Loc(SmName(1), TRUE), Loc(SmName(2), FALSE),
                                 NoLoc, Loc(SmName(1), FALSE)>>)
      [] site = "index" /\ path = SmName(1) ->
            Xml("urlset", <<Loc(PageName(1), FALSE), Loc(PageName(2), TRUE)>>)
      [] site = "index" /\ path = SmName(2) ->
            Xml("urlset", <<Loc(PageName(2), FALSE), NoLoc, Loc(PageName(3), FALSE)>>)
      [] site = "index" /\ path = "/news.xml" ->
            Xml("urlset", <<Loc(PageName(4), FALSE)>>)
      [] site = "chain" /\ path = "/sitemap.xml" ->
            Xml("sitemapindex", <<Loc("/sitemap.xml", FALSE), Loc(SmName(1), FALSE)>>)
      [] site = "chain" /\ \E n \in 1..SmChildren : path = SmName(n) ->
            LET n == CHOOSE n \in 1..SmChildren : path = SmName(n)
            IN Xml("sitemapindex", <<Loc(SmName(n), FALSE), Loc(SmName(n + 1), FALSE)>>)
      [] site = "wide" /\ path = "/sitemap.xml" ->
            Xml("sitemapindex", [n \in 1..SmChildren |-> Loc(SmName(n), FALSE)])
      [] site = "wide" /\ \E n \in 1..SmChildren : path = SmName(n) ->
            LET n == CHOOSE n \in 1..SmChildren : path = SmName(n)
            IN Xml("urlset", <<Loc(PageName(n % 3), FALSE)>>)
      [] site = "cycle" /\ path = "/sitemap.xml" ->
            Xml("sitemapindex", <<Loc(SmName(1), FALSE)>>)
      [] site = "cycle" /\ path = SmName(1) ->
            Xml("sitemapindex", <<Loc("/sitemap.xml", FALSE), Loc(SmName(2), FALSE)>>)
      [] site = "cycle" /\ path = SmName(2) ->
            Xml("sitemapindex", <<Loc(SmName(1), FALSE), Loc(SmName(2), TRUE)>>)
      [] OTHER -> NoText

\* sitemaps whose fetch may also fail (network error, status not ok)
Flaky(site) ==
    CASE site = "index" -> {SmName(2)}
      [] site = "chain" -> {SmName(3)}
      [] site = "wide" -> {SmName(2), SmName(5)}
      [] site = "cycle" -> {SmName(2)}
      [] site = "dead" -> {}

\* robots.sitemaps, the extraSitemaps argument
ExtraSitemaps == {<<>>, <<Loc("/sitemap.xml", FALSE)>>, <<Loc("/news.xml", FALSE)>>}

SmIdle ==
    /\ smSite = "" /\ smQueue = <<>> /\ foundSitemaps = <<>> /\ smUrls = <<>>
    /\ seenSm = {} /\ fetchLog = <<>> /\ smpc = "idle"
    /\ smResult = [urls |-> <<>>, foundSitemaps |-> <<>>]

\* discoverSitemapUrls(baseUrl, extraSitemaps, headers) up to the loop
SmStart ==
    /\ smSite \in SmSites
    /\ \E extraSitemaps \in ExtraSitemaps :
          smQueue = ArrayFromSet(<<Loc("/sitemap.xml", FALSE)>> \o extraSitemaps)
    /\ foundSitemaps = <<>> /\ smUrls = <<>> /\ seenSm = {} /\ fetchLog = <<>>
    /\ smpc = "loop"
    /\ smResult = [urls |-> <<>>, foundSitemaps |-> <<>>]

\* the cap on fetched sitemaps is left out
SmCond_NoCap == smQueue # <<>>

\* while (queue.length && foundSitemaps.length < maxSitemapsToFetch)
SmCond == smQueue # <<>> /\ Len(foundSitemaps) < maxSitemapsToFetch

\* the children are put in front of the queue
EnqueueChildren_Front(queue, children, seenNow) ==
    SelectSeq(children, LAMBDA c : c \notin seenNow) \o queue

\* for (const child of parsed.childSitemaps) if (!seenSm.has(child)) queue.push(child)
EnqueueChildren(queue, children, seenNow) ==
    queue \o SelectSeq(children, LAMBDA c : c \notin seenNow)

\* if (seenSm.has(sm)) continue
SmSkipSeen ==
    /\ smpc = "loop" /\ SmCond
    /\ Head(smQueue) \in seenSm
    /\ smQueue' = Tail(smQueue)
    /\ UNCHANGED <<smSite, foundSitemaps, smUrls, seenSm, fetchLog, smpc, smResult>>
    /\ UNCHANGED <<crawlVars, funnelVars, runVars, rbVars, urlVars>>

\* fetchText returns null or ""; if (!text) continue
SmFetchNone ==
    /\ smpc = "loop" /\ SmCond
    /\ Head(smQueue) \notin seenSm
    /\ SiteXml(smSite, Head(smQueue)) = NoText \/ Head(smQueue).href.path \in Flaky(smSite)
    /\ smQueue' = Tail(smQueue)
    /\ seenSm' = seenSm \cup {Head(smQueue)}
    /\ fetchLog' = Append(fetchLog, [sm |-> Head(smQueue), ok |-> FALSE])
    /\ UNCHANGED <<smSite, foundSitemaps, smUrls, smpc, smResult>>
    /\ UNCHANGED <<crawlVars, funnelVars, runVars, rbVars, urlVars>>

\* seenSm.add(sm) is left out
SmFetched_NoSeenAdd ==
    /\ smpc = "loop" /\ SmCond
    /\ Head(smQueue) \notin seenSm
    /\ SiteXml(smSite, Head(smQueue)) # NoText
    /\ LET sm == Head(smQueue)
           psd == parseSitemapXml(SiteXml(smSite, sm))
       IN /\ seenSm' = seenSm
          /\ fetchLog' = Append(fetchLog, [sm |-> sm, ok |-> TRUE])
          /\ foundSitemaps' = Append(foundSitemaps, sm)
          /\ smUrls' = smUrls \o psd.urls
          /\ smQueue' = EnqueueChildren(Tail(smQueue), psd.childSitemaps, seenSm')
    /\ UNCHANGED <<smSite, smpc, smResult>>
    /\ UNCHANGED <<crawlVars, funnelVars, runVars, rbVars, urlVars>>

\* fetchText returns a text: foundSitemaps.push, urls.push, enqueue children
SmFetched ==
    /\ smpc = "loop" /\ SmCond
    /\ Head(smQueue) \notin seenSm
    /\ SiteXml(smSite, Head(smQueue)) # NoText
    /\ LET sm == Head(smQueue)
           psd == parseSitemapXml(SiteXml(smSite, sm))
       IN /\ seenSm' = seenSm \cup {sm}
          /\ fetchLog' = Append(fetchLog, [sm |-> sm, ok |-> TRUE])
          /\ foundSitemaps' = Append(foundSitemaps, sm)
          /\ smUrls' = smUrls \o psd.urls
          /\ smQueue' = EnqueueChildren(Tail(smQueue), psd.childSitemaps, seenSm')
    /\ UNCHANGED <<smSite, smpc, smResult>>
    /\ UNCHANGED <<crawlVars, funnelVars, runVars, rbVars, urlVars>>

\* return { urls: Array.from(new Set(urls)), foundSitemaps: Array.from(new Set(...)) }
SmReturn ==
    /\ smpc = "loop" /\ ~SmCond
    /\ smResult' = [urls |-> ArrayFromSet(smUrls),
                    foundSitemaps |-> ArrayFromSet(foundSitemaps)]
    /\ smpc' = "done"
    /\ UNCHANGED <<smSite, smQueue, foundSitemaps, smUrls, seenSm, fetchLog>>
    /\ UNCHANGED <<crawlVars, funnelVars, runVars, rbVars, urlVars>>

SmSteps ==
    \/ SmSkipSeen
    \/ SmFetchNone
    \/ SmFetched
    \/ SmReturn

(***************************************************************************)
(* crawl.ts: runFunnelFinder, stage 4 (check statuses + score pages) and   *)
(* what follows it.                                                        *)
(*   task[i]: the async function of candidates[i] under pLimit(4): pc is   *)
(*   "queued" (waiting in the limiter), "sleep" (robots passed, in the     *)
(*   delay or the status probe), "get" (the GET of fetchHtmlWithFallback   *)
(*   in flight), "launch" (chromium.launch in flight), "page" (browser     *)
(*   page open), "done" (returned), "threw" (rejected); status, finalUrl,  *)
(*   contentType: what fetchStatus returned; pushed: checked.push done;    *)
(*   launched: the task called chromium.launch; fetched: the task called   *)
(*   fetchHtmlWithFallback(finalUrl).                                      *)
(*   requests: the network requests issued so far (history).               *)
(*   browser, browserFailed: the module variables _browser, _browserFailed.*)
(*   outcome: "start", then "running" during stage 4, "returned" when the  *)
(*   promise of runFunnelFinder is fulfilled, "rejected" when it rejects.  *)
(***************************************************************************)
concurrency == 4

AdLikeCap == 250

RunInputs ==
    {Href("noscheme", "", SiteHost, "/", <<>>, "top"),
     Href("empty", "", "", "", <<>>, ""),
     Href("bad", "", "", "", <<>>, "")}

RunRules == {Rules(<<>>, <<>>), Rules(<<>>, <<"/admin">>)}

\* the pages the crawl of stage 2 can return, in this order
RunPages == <<"/lp", "/checkout", "/admin/x", "/offer">>

Response(st, u, ct) == [status |-> st, url |-> u, contentType |-> ct]

NetworkError == Response(-1, NoUrl, "")

HtmlType == "text/html; charset=utf-8"

\* what the site may answer to a HEAD request for url
HeadResponses(url) ==
    CASE url.path = "/lp" ->
            {Response(200, url, HtmlType),
             Response(200, [url EXCEPT !.query = <<Param("utm_source", "raw")>>], ""),
             Response(300, url, HtmlType)}
      [] url.path = "/checkout" ->
            {Response(200, url, "Text/HTML"), Response(404, url, HtmlType),
             Response(405, url, ""), NetworkError}
      [] url.path = "/offer" ->
            {Response(200, url, "application/pdf"), Response(503, url, ""),
             Response(501, url, ""),
             Response(200, [url EXCEPT !.path = "/lp"], HtmlType)}
      [] StartsWith(url.path, "/gone") -> {Response(404, url, "")}
      [] OTHER -> {Response(200, url, HtmlType)}

\* what the site may answer to a GET request for url
GetResponses(url) ==
    CASE url.path = "/checkout" -> {Response(200, url, HtmlType), Response(405, url, "")}
      [] url.path = "/offer" -> {Response(200, url, "application/pdf"), NetworkError}
      [] OTHER -> {Response(200, url, HtmlType)}

\* { status: res.status, finalUrl: res.url || url, contentType }; catch: status 0
StatusOf(url, res) ==
    IF res = NetworkError
    THEN [status |-> 0, finalUrl |-> url, contentType |-> ""]
    ELSE [status |-> res.status,
          finalUrl |-> IF res.url # NoUrl THEN res.url ELSE url,
          contentType |-> res.contentType]

\* the values fetchStatus(url) can return: HEAD, and GET after 405 or 501
fetchStatus(url) ==
    {StatusOf(url, res) : res \in {h \in HeadResponses(url) : h = NetworkError \/ h.status \notin {405, 501}}}
    \cup (IF \E h \in HeadResponses(url) : h # NetworkError /\ h.status \in {405, 501}
          THEN {StatusOf(url, res) : res \in GetResponses(url)}
          ELSE {})

\* the content type test is left out
Kept_NoContentType(probe) ==
    /\ probe.status # 0
    /\ ~(probe.status >= 400 /\ probe.status < 600)

\* only 5xx is excluded
Kept_No4xx(probe) ==
    /\ probe.status # 0
    /\ ~(probe.status >= 500 /\ probe.status < 600)
    /\ ~(probe.contentType # "" /\ ~Includes(toLowerCase(probe.contentType), "text/html"))

\* the three early returns after fetchStatus do not fire
Kept(probe) ==
    /\ probe.status # 0
    /\ ~(probe.status >= 400 /\ probe.status < 600)
    /\ ~(probe.contentType # "" /\ ~Includes(toLowerCase(probe.contentType), "text/html"))

\* the document of a page of the site
RunDoc(url) ==
    CASE url.path = "/lp" -> Mid(<<CtaLink("/checkout", TRUE), Link("/blog")>>)
      [] url.path = "/checkout" -> Mid(<<Link("/lp")>>)
      [] OTHER -> Poor(<<Link("/lp")>>)

\* the document of a page after its scripts ran (page.content())
RenderedDoc(url) ==
    CASE url.path = "/lp" -> Poor(<<CtaLink("/checkout", TRUE), Link("/blog")>>)
      [] url.path = "/checkout" -> Poor(<<>>)
      [] OTHER -> Poor(<<Link("/lp")>>)

\* a network request: fetchRobots ("robots"), discoverSitemapUrls
\* ("sitemap") and crawlInternalLinks ("crawl") for the base URL; fetchStatus
\* ("status") and the GET of fetchHtmlWithFallback ("html") for a candidate
Request(kind, url) == [kind |-> kind, url |-> url]

NewTask == [pc |-> "queued", status |-> -1, finalUrl |-> NoUrl, contentType |-> "",
            pushed |-> FALSE, launched |-> FALSE, fetched |-> FALSE]

RunIdle ==
    /\ inputUrl = Href("empty", "", "", "", <<>>, "") /\ baseUrl = NoUrl
    /\ rules = Rules(<<>>, <<>>) /\ candidates = <<>> /\ task = <<>>
    /\ checked = <<>> /\ htmlCache = <<>>
    /\ browser = FALSE /\ browserFailed = FALSE /\ outcome = "idle"
    /\ requests = {}

RunInit ==
    /\ inputUrl \in RunInputs
    /\ baseUrl = NoUrl
    /\ rules = Rules(<<>>, <<>>) /\ candidates = <<>> /\ task = <<>>
    /\ checked = <<>> /\ htmlCache = <<>>
    /\ browser = FALSE /\ browserFailed = FALSE
    /\ outcome = "start"
    /\ requests = {}

\* order-preserving selections of at most MaxCandidates pages
CandidateLists ==
    {SelectSeq([i \in 1..Len(RunPages) |-> i], LAMBDA i : i \in S) :
        S \in {S \in SUBSET (1..Len(RunPages)) : Cardinality(S) <= MaxCandidates}}

\* normalizeUrl(inputUrl) throws
RunInvalidUrl ==
    /\ outcome = "start" /\ normalizeThrows(inputUrl)
    /\ outcome' = "rejected"
    /\ UNCHANGED <<inputUrl, baseUrl, rules, candidates, task, checked, htmlCache,
                   browser, browserFailed, adLikePages, funnels, outputText, requests>>
    /\ UNCHANGED <<crawlVars, cursor, dups, fpc, smVars, rbVars, urlVars>>

\* a <loc> holding a relative reference
RelLoc(path) == [href |-> Href("rel", "", "", path, <<>>, ""), ws |-> FALSE]

\* what the site may serve at /sitemap.xml during a run: a text that is no
\* sitemap, or a urlset with an absolute and a relative <loc>
RunSitemapTexts ==
    {Xml("html", <<>>), Xml("urlset", <<Loc("/lp", FALSE), RelLoc("/checkout")>>)}

\* sm of stage 1 for that text
RunSitemaps(text) ==
    [urls |-> ArrayFromSet(parseSitemapXml(text).urls),
     foundSitemaps |-> <<Loc("/sitemap.xml", FALSE)>>]

\* new URL(url) in stripUtm throws: url is not an absolute URL
stripUtmThrows(l) == l.href.kind # "abs"

\* the URL a loc string denotes
LocUrl(l) == Url(l.href.protocol, l.href.host, l.href.path, l.href.query)

\* stage 3: Array.from(new Set([...sm.urls, ...crawled])).map(stripUtm)
\* .filter(sameOrigin), then the looksExcluded filter
Candidates(b, smu, crawledUrls) ==
    LET raw == ArrayFromSet([i \in 1..Len(smu) |-> LocUrl(smu[i])] \o crawledUrls)
        stripped == [i \in 1..Len(raw) |-> stripUtm(raw[i])]
    IN SelectSeq(stripped, LAMBDA u : sameOrigin(b, u) /\ ~looksExcluded(u))

\* stages 1-3: a sitemap URL makes stripUtm throw and the run rejects
RunStripThrows ==
    /\ outcome = "start" /\ ~normalizeThrows(inputUrl)
    /\ baseUrl' = normalizeUrl(inputUrl)
    /\ rules' \in RunRules
    /\ \E text \in RunSitemapTexts :
          /\ smResult' = RunSitemaps(text)
          /\ \E i \in 1..Len(smResult'.urls) : stripUtmThrows(smResult'.urls[i])
    /\ outcome' = "rejected"
    /\ requests' = {Request("robots", baseUrl'), Request("sitemap", baseUrl'),
                    Request("crawl", baseUrl')}
    /\ UNCHANGED <<inputUrl, candidates, task, checked, htmlCache, browser, browserFailed,
                   adLikePages, funnels, outputText>>
    /\ UNCHANGED <<smSite, smQueue, foundSitemaps, smUrls, seenSm, fetchLog, smpc>>
    /\ UNCHANGED <<crawlVars, cursor, dups, fpc, rbVars, urlVars>>

\* stages 1-3: robots, sitemaps, crawl, candidate set
RunStart ==
    /\ outcome = "start" /\ ~normalizeThrows(inputUrl)
    /\ baseUrl' = normalizeUrl(inputUrl)
    /\ rules' \in RunRules
    /\ \E text \in RunSitemapTexts :
          /\ smResult' = RunSitemaps(text)
          /\ \A i \in 1..Len(smResult'.urls) : ~stripUtmThrows(smResult'.urls[i])
    /\ \E picks \in CandidateLists :
          /\ candidates' =
                Candidates(baseUrl', smResult'.urls,
                           [k \in 1..Len(picks) |->
                              Url(baseUrl'.protocol, baseUrl'.host, RunPages[picks[k]], <<>>)])
          /\ task' = [k \in 1..Len(candidates') |-> NewTask]
    /\ outcome' = "running"
    /\ requests' = {Request("robots", baseUrl'), Request("sitemap", baseUrl'),
                    Request("crawl", baseUrl')}
    /\ UNCHANGED <<inputUrl, checked, htmlCache, browser, browserFailed, adLikePages, funnels,
                   outputText>>
    /\ UNCHANGED <<smSite, smQueue, foundSitemaps, smUrls, seenSm, fetchLog, smpc>>
    /\ UNCHANGED <<crawlVars, cursor, dups, fpc, rbVars, urlVars>>

Active == {i \in 1..Len(task) : task[i].pc \in {"sleep", "get", "launch", "page"}}

\* htmlCache.get(u): the document cached for u, EmptyDoc ("" or undefined) if none
CacheGet(u) ==
    IF \E k \in 1..Len(htmlCache) : htmlCache[k].key = u
    THEN htmlCache[CHOOSE k \in 1..Len(htmlCache) : htmlCache[k].key = u].html
    ELSE EmptyDoc

\* htmlCache.set(u, html)
CacheSet(u, html) ==
    IF \E k \in 1..Len(htmlCache) : htmlCache[k].key = u
    THEN [k \in 1..Len(htmlCache) |->
            IF htmlCache[k].key = u THEN [key |-> u, html |-> html] ELSE htmlCache[k]]
    ELSE Append(htmlCache, [key |-> u, html |-> html])

\* scorePage ... checked.push({...}); the task returns
Push(i, html) ==
    /\ checked' = Append(checked,
                         PageFinding(baseUrl, candidates[i], task[i].finalUrl,
                                     task[i].status, html))
    /\ task' = [task EXCEPT ![i].pc = "done", ![i].pushed = TRUE]

\* the limiter starts a queued function whatever the number in progress
TaskStart_NoLimit(i) ==
    /\ task[i].pc = "queued"
    /\ \A j \in 1..(i - 1) : task[j].pc # "queued"
    /\ task' = [task EXCEPT ![i].pc =
                   IF isAllowedByRobots(baseUrl, rules, candidates[i]) THEN "sleep" ELSE "done"]
    /\ UNCHANGED <<inputUrl, baseUrl, rules, candidates, checked, htmlCache,
                   browser, browserFailed, outcome, adLikePages, funnels, outputText, requests>>
    /\ UNCHANGED <<crawlVars, cursor, dups, fpc, smVars, rbVars, urlVars>>

\* the limiter starts the next queued function; robots check
TaskStart(i) ==
    /\ task[i].pc = "queued"
    /\ \A j \in 1..(i - 1) : task[j].pc # "queued"
    /\ Cardinality(Active) < concurrency
    /\ task' = [task EXCEPT ![i].pc =
                   IF isAllowedByRobots(baseUrl, rules, candidates[i]) THEN "sleep" ELSE "done"]
    /\ UNCHANGED <<inputUrl, baseUrl, rules, candidates, checked, htmlCache,
                   browser, browserFailed, outcome, adLikePages, funnels, outputText, requests>>
    /\ UNCHANGED <<crawlVars, cursor, dups, fpc, smVars, rbVars, urlVars>>

\* sleep, fetchStatus, the early returns, htmlCache.get
TaskProbe(i, probe) ==
    /\ task[i].pc = "sleep"
    /\ probe \in fetchStatus(candidates[i])
    /\ LET t == [task[i] EXCEPT !.status = probe.status, !.finalUrl = probe.finalUrl,
                                !.contentType = probe.contentType]
       IN IF ~Kept(probe)
          THEN /\ task' = [task EXCEPT ![i] = [t EXCEPT !.pc = "done"]]
               /\ UNCHANGED checked
          ELSE IF CacheGet(probe.finalUrl) # EmptyDoc
               THEN /\ checked' = Append(checked,
                                         PageFinding(baseUrl, candidates[i], probe.finalUrl,
                                                     probe.status, CacheGet(probe.finalUrl)))
                    /\ task' = [task EXCEPT ![i] = [t EXCEPT !.pc = "done", !.pushed = TRUE]]
               ELSE /\ task' = [task EXCEPT ![i] = [t EXCEPT !.pc = "get", !.fetched = TRUE]]
                    /\ UNCHANGED checked
    /\ requests' = requests \cup {Request("status", candidates[i])}
                    \cup (IF Kept(probe) /\ CacheGet(probe.finalUrl) = EmptyDoc
                          THEN {Request("html", candidates[i])} ELSE {})
    /\ UNCHANGED <<inputUrl, baseUrl, rules, candidates, htmlCache,
                   browser, browserFailed, outcome, adLikePages, funnels, outputText>>
    /\ UNCHANGED <<crawlVars, cursor, dups, fpc, smVars, rbVars, urlVars>>

\* fetchHtmlWithFallback: the GET answers ok with text/html
TaskGetHtml(i) ==
    /\ task[i].pc = "get"
    /\ htmlCache' = CacheSet(task[i].finalUrl, RunDoc(task[i].finalUrl))
    /\ Push(i, RunDoc(task[i].finalUrl))
    /\ UNCHANGED <<inputUrl, baseUrl, rules, candidates,
                   browser, browserFailed, outcome, adLikePages, funnels, outputText, requests>>
    /\ UNCHANGED <<crawlVars, cursor, dups, fpc, smVars, rbVars, urlVars>>

\* the GET fails or is not HTML; getBrowser() up to its first await
TaskGetOther(i) ==
    /\ task[i].pc = "get"
    /\ IF browser
       THEN /\ task' = [task EXCEPT ![i].pc = "page"]
            /\ UNCHANGED <<checked, htmlCache>>
       ELSE IF browserFailed
            THEN /\ htmlCache' = CacheSet(task[i].finalUrl, EmptyDoc)
                 /\ Push(i, EmptyDoc)
            ELSE /\ task' = [task EXCEPT ![i].pc = "launch", ![i].launched = TRUE]
                 /\ UNCHANGED <<checked, htmlCache>>
    /\ UNCHANGED <<inputUrl, baseUrl, rules, candidates,
                   browser, browserFailed, outcome, adLikePages, funnels, outputText, requests>>
    /\ UNCHANGED <<crawlVars, cursor, dups, fpc, smVars, rbVars, urlVars>>

\* chromium.launch resolves: _browser = ...
TaskLaunchOk(i) ==
    /\ task[i].pc = "launch"
    /\ browser' = TRUE
    /\ task' = [task EXCEPT ![i].pc = "page"]
    /\ UNCHANGED <<inputUrl, baseUrl, rules, candidates, checked, htmlCache,
                   browserFailed, outcome, adLikePages, funnels, outputText, requests>>
    /\ UNCHANGED <<crawlVars, cursor, dups, fpc, smVars, rbVars, urlVars>>

\* chromium.launch rejects: _browserFailed = true, html = ""
TaskLaunchFails(i) ==
    /\ task[i].pc = "launch"
    /\ browserFailed' = TRUE
    /\ htmlCache' = CacheSet(task[i].finalUrl, EmptyDoc)
    /\ Push(i, EmptyDoc)
    /\ UNCHANGED <<inputUrl, baseUrl, rules, candidates,
                   browser, outcome, adLikePages, funnels, outputText, requests>>
    /\ UNCHANGED <<crawlVars, cursor, dups, fpc, smVars, rbVars, urlVars>>

\* newPage, goto and content succeed
TaskPageHtml(i) ==
    /\ task[i].pc = "page"
    /\ htmlCache' = CacheSet(task[i].finalUrl, RenderedDoc(task[i].finalUrl))
    /\ Push(i, RenderedDoc(task[i].finalUrl))
    /\ UNCHANGED <<inputUrl, baseUrl, rules, candidates,
                   browser, browserFailed, outcome, adLikePages, funnels, outputText, requests>>
    /\ UNCHANGED <<crawlVars, cursor, dups, fpc, smVars, rbVars, urlVars>>

\* newPage or goto (20 s timeout) throws: try/finally without catch, the
\* task rejects and Promise.all rejects with it
TaskPageThrows(i) ==
    /\ task[i].pc = "page"
    /\ task' = [task EXCEPT ![i].pc = "threw"]
    /\ outcome' = IF outcome = "running" THEN "rejected" ELSE outcome
    /\ UNCHANGED <<inputUrl, baseUrl, rules, candidates, checked, htmlCache,
                   browser, browserFailed, adLikePages, funnels, outputText, requests>>
    /\ UNCHANGED <<crawlVars, cursor, dups, fpc, smVars, rbVars, urlVars>>

RECURSIVE InsertByScore(_, _)
InsertByScore(sorted, p) ==
    IF sorted = <<>> THEN <<p>>
    ELSE IF Head(sorted).score >= p.score
         THEN <<Head(sorted)>> \o InsertByScore(Tail(sorted), p)
         ELSE <<p>> \o sorted

RECURSIVE SortByScore(_, _)
\* checked.sort((a, b) => b.score - a.score)
SortByScore(ps, acc) ==
    IF ps = <<>> THEN acc ELSE SortByScore(Tail(ps), InsertByScore(acc, Head(ps)))

\* the score filter is left out
AdLike_NoThreshold(valid) == SubSeq(valid, 1, Min(Len(valid), AdLikeCap))

\* valid.filter(p => p.score >= 18).slice(0, 250)
AdLike(valid) ==
    LET kept == SelectSeq(valid, LAMBDA p : p.score >= AdLikeThreshold)
    IN SubSeq(kept, 1, Min(Len(kept), AdLikeCap))

\* Promise.all is fulfilled: stages 5-7 and return
RunFinish ==
    /\ outcome = "running"
    /\ \A i \in 1..Len(task) : task[i].pc = "done"
    /\ adLikePages' = AdLike(SortByScore(checked, <<>>))
    /\ funnels' = buildFunnels(adLikePages')
    /\ outputText' = formatOutputText(baseUrl, adLikePages', funnels')
    /\ outcome' = "returned"
    /\ UNCHANGED <<inputUrl, baseUrl, rules, candidates, task, checked, htmlCache,
                   browser, browserFailed, requests>>
    /\ UNCHANGED <<crawlVars, cursor, dups, fpc, smVars, rbVars, urlVars>>

\* a site whose stages 1-3 hand over more candidates than the limiter
\* runs at once: one disallowed by robots, one page, and pages that are gone
LimitPages == <<"/admin/x", "/lp", "/gone-1", "/gone-2", "/gone-3", "/gone-4">>

\* the state when stage 4 begins for that site
LimitStart ==
    /\ inputUrl = Href("noscheme", "", SiteHost, "/", <<>>, "")
    /\ baseUrl = normalizeUrl(inputUrl)
    /\ rules = Rules(<<>>, <<"/admin">>)
    /\ candidates = [k \in 1..Len(LimitPages) |->
                        Url(baseUrl.protocol, baseUrl.host, LimitPages[k], <<>>)]
    /\ task = [k \in 1..Len(LimitPages) |-> NewTask]
    /\ checked = <<>> /\ htmlCache = <<>>
    /\ browser = FALSE /\ browserFailed = FALSE
    /\ outcome = "running"
    /\ requests = {Request("robots", baseUrl), Request("sitemap", baseUrl),
                   Request("crawl", baseUrl)}

\* stage 4 and what follows it
LimitSteps ==
    \/ \E i \in 1..Len(task) : TaskStart(i)
    \/ \E i \in 1..Len(task) : \E probe \in fetchStatus(candidates[i]) : TaskProbe(i, probe)
    \/ \E i \in 1..Len(task) : TaskGetHtml(i)
    \/ \E i \in 1..Len(task) : TaskGetOther(i)
    \/ \E i \in 1..Len(task) : TaskLaunchOk(i)
    \/ \E i \in 1..Len(task) : TaskLaunchFails(i)
    \/ \E i \in 1..Len(task) : TaskPageHtml(i)
    \/ \E i \in 1..Len(task) : TaskPageThrows(i)
    \/ RunFinish

RunSteps ==
    \/ RunInvalidUrl
    \/ RunStripThrows
    \/ RunStart
    \/ \E i \in 1..Len(task) : TaskStart(i)
    \/ \E i \in 1..Len(task) : \E probe \in fetchStatus(candidates[i]) : TaskProbe(i, probe)
    \/ \E i \in 1..Len(task) : TaskGetHtml(i)
    \/ \E i \in 1..Len(task) : TaskGetOther(i)
    \/ \E i \in 1..Len(task) : TaskLaunchOk(i)
    \/ \E i \in 1..Len(task) : TaskLaunchFails(i)
    \/ \E i \in 1..Len(task) : TaskPageHtml(i)
    \/ \E i \in 1..Len(task) : TaskPageThrows(i)
    \/ RunFinish

(***************************************************************************)
(* robots.ts: parseRobots and isAllowedByRobots on its result.             *)
(*   robotsTxt: the lines of the text, txt.split(/\r?\n/); parsed: the     *)
(*   RobotsRules returned; cand, allowed: a candidate URL and what         *)
(*   isAllowedByRobots returned for it; rpc: "input", "parsed", "checked". *)
(***************************************************************************)
MaxLines == 4           \* lines of a robots.txt

\* String.prototype.indexOf, counted from 1; 0 when c does not occur
IndexOf(str, c) ==
    IF \E i \in 1..Len(str) : SubSeq(str, i, i) = c
    THEN CHOOSE i \in 1..Len(str) :
            /\ SubSeq(str, i, i) = c
            /\ \A j \in 1..(i - 1) : SubSeq(str, j, j) # c
    ELSE 0

\* str.split(c)[0]
BeforeFirst(str, c) ==
    IF IndexOf(str, c) = 0 THEN str ELSE SubSeq(str, 1, IndexOf(str, c) - 1)

\* str.split(c).slice(1).join(c)
AfterFirst(str, c) ==
    IF IndexOf(str, c) = 0 THEN "" ELSE SubSeq(str, IndexOf(str, c) + 1, Len(str))

IsSpace(c) == c \in {" ", "\t"}

RECURSIVE TrimString(_)
\* String.prototype.trim
TrimString(str) ==
    IF Len(str) = 0 THEN ""
    ELSE IF IsSpace(SubSeq(str, 1, 1)) THEN TrimString(SubSeq(str, 2, Len(str)))
    ELSE IF IsSpace(SubSeq(str, Len(str), Len(str)))
         THEN TrimString(SubSeq(str, 1, Len(str) - 1))
         ELSE str

\* raw.split("#")[0].trim()
LineOf(raw) == TrimString(BeforeFirst(raw, "#"))

\* kRaw.trim().toLowerCase()
KeyOf(line) == toLowerCase(TrimString(BeforeFirst(line, ":")))

\* rest.join(":").trim()
ValueOf(line) == TrimString(AfterFirst(line, ":"))

RobotsUrl == Url("https:", SiteHost, "/robots.txt", <<>>)

\* new URL(value, robotsUrl) throws: an absolute URL without a host
SitemapUrlThrows(value) == value \in {"https://", "http://"}

\* new URL(value, robotsUrl).toString() for a value without query and hash
SitemapUrl(value, robotsUrl) ==
    LET abs == \E pr \in {"https:", "http:"} : StartsWith(value, pr \o "//")
        pr == IF StartsWith(value, "https://") THEN "https:" ELSE "http:"
        rest == SubSeq(value, Len(pr) + 3, Len(value))
        h == BeforeFirst(rest, "/")
        p == IF IndexOf(rest, "/") = 0 THEN "/" ELSE SubSeq(rest, IndexOf(rest, "/"), Len(rest))
    IN IF abs THEN [href |-> Href("abs", pr, h, p, <<>>, ""), ws |-> FALSE]
       ELSE IF value = "" THEN [href |-> Href("abs", robotsUrl.protocol, robotsUrl.host,
                                               robotsUrl.path, <<>>, ""), ws |-> FALSE]
       ELSE [href |-> Href("abs", robotsUrl.protocol, robotsUrl.host,
                           IF StartsWith(value, "/") THEN value ELSE "/" \o value,
                           <<>>, ""), ws |-> FALSE]

RECURSIVE ParseLines_AnyGroup(_, _, _, _)
\* Disallow lines are retained whatever group they stand in
ParseLines_AnyGroup(lines, robotsUrl, inStarGroup, acc) ==
    IF lines = <<>> THEN acc
    ELSE LET line == LineOf(Head(lines))
             key == KeyOf(line)
             value == ValueOf(line)
             rest == Tail(lines)
         IN IF line = "" THEN ParseLines_AnyGroup(rest, robotsUrl, inStarGroup, acc)
            ELSE IF key = "user-agent"
                 THEN ParseLines_AnyGroup(rest, robotsUrl, value = "*", acc)
            ELSE IF key = "sitemap"
                 THEN ParseLines_AnyGroup(rest, robotsUrl, inStarGroup,
                         IF SitemapUrlThrows(value) THEN acc
                         ELSE [acc EXCEPT !.sitemaps =
                                  Append(@, SitemapUrl(value, robotsUrl))])
            ELSE IF key = "disallow"
                 THEN ParseLines_AnyGroup(rest, robotsUrl, inStarGroup,
                         IF value # "" THEN [acc EXCEPT !.disallow = Append(@, value)]
                         ELSE acc)
            ELSE ParseLines_AnyGroup(rest, robotsUrl, inStarGroup, acc)

RECURSIVE ParseLines(_, _, _, _)
\* for (const raw of lines) { ... }
ParseLines(lines, robotsUrl, inStarGroup, acc) ==
    IF lines = <<>> THEN acc
    ELSE LET line == LineOf(Head(lines))
             key == KeyOf(line)
             value == ValueOf(line)
             rest == Tail(lines)
         IN IF line = "" THEN ParseLines(rest, robotsUrl, inStarGroup, acc)
            ELSE IF key = "user-agent"
                 THEN ParseLines(rest, robotsUrl, value = "*", acc)
            ELSE IF key = "sitemap"
                 THEN ParseLines(rest, robotsUrl, inStarGroup,
                         IF SitemapUrlThrows(value) THEN acc
                         ELSE [acc EXCEPT !.sitemaps =
                                  Append(@, SitemapUrl(value, robotsUrl))])
            ELSE IF inStarGroup /\ key = "disallow"
                 THEN ParseLines(rest, robotsUrl, inStarGroup,
                         IF value # "" THEN [acc EXCEPT !.disallow = Append(@, value)]
                         ELSE acc)
            ELSE ParseLines(rest, robotsUrl, inStarGroup, acc)

\* return { sitemaps: Array.from(new Set(sitemaps)), disallow }
parseRobots(txt, robotsUrl) ==
    LET r == ParseLines(txt, robotsUrl, FALSE, Rules(<<>>, <<>>))
    IN Rules(ArrayFromSet(r.sitemaps), r.disallow)

RobotsLines ==
    {"User-agent: *",
     "user-agent: Googlebot",
     "Disallow: /admin",
     "DISALLOW : /secret # private",
     "Disallow:",
     "Sitemap: https://a.test/news.xml"}

RobotsCandidates ==
    {PageUrl("/admin/x"), PageUrl("/secret"), PageUrl("/lp"),
     Url("http:", SiteHost, "/lp", <<>>),
     Url("https:", SiteHost \o ":8443", "/lp", <<>>),
     Url("https:", "b.test", "/lp", <<>>)}

RbIdle ==
    /\ robotsTxt = <<>> /\ parsed = Rules(<<>>, <<>>) /\ cand = NoUrl
    /\ allowed = FALSE /\ rpc = "idle"

RbStart ==
    /\ robotsTxt \in UNION {[1..n -> RobotsLines] : n \in 0..MaxLines}
    /\ parsed = Rules(<<>>, <<>>) /\ cand = NoUrl /\ allowed = FALSE
    /\ rpc = "input"

\* return parseRobots(text, robotsUrl)
ParseRobots ==
    /\ rpc = "input"
    /\ parsed' = parseRobots(robotsTxt, RobotsUrl)
    /\ rpc' = "parsed"
    /\ UNCHANGED <<robotsTxt, cand, allowed>>
    /\ UNCHANGED <<crawlVars, funnelVars, runVars, smVars, urlVars>>

\* isAllowedByRobots(baseUrl, robots, url)
CheckAllowed(candidateUrl) ==
    /\ rpc = "parsed"
    /\ cand' = candidateUrl
    /\ allowed' = isAllowedByRobots(FunnelBase, parsed, candidateUrl)
    /\ rpc' = "checked"
    /\ UNCHANGED <<robotsTxt, parsed>>
    /\ UNCHANGED <<crawlVars, funnelVars, runVars, smVars, urlVars>>

RbSteps ==
    \/ ParseRobots
    \/ \E candidateUrl \in RobotsCandidates : CheckAllowed(candidateUrl)

(***************************************************************************)
(* url.ts: stripUtm on a URL and on its own result.                        *)
(*   uIn: the URL given; uOut: stripUtm(uIn); uTwice: stripUtm(uOut);      *)
(*   upc: "input", "once", "twice".  A query parameter is [k, enc]: its    *)
(*   decoded name and whether it is written as URLSearchParams would       *)
(*   serialise it ("form") or otherwise ("raw", e.g. %20 for a space).     *)
(***************************************************************************)
MaxQuery == 3           \* parameters of a query

QueryKeys == {"a", "b", "utm_source", "gclid"}

QueryParams == {Param(k, e) : k \in QueryKeys, e \in {"raw", "form"}}

UrlInputs ==
    {Url("https:", SiteHost, "/lp", qy) :
        qy \in UNION {[1..n -> QueryParams] : n \in 0..MaxQuery}}

UrlIdle == uIn = NoUrl /\ uOut = NoUrl /\ uTwice = NoUrl /\ upc = "idle"

UrlStart == uIn \in UrlInputs /\ uOut = NoUrl /\ uTwice = NoUrl /\ upc = "input"

\* stripUtm(u)
StripOnce ==
    /\ upc = "input"
    /\ uOut' = stripUtm(uIn)
    /\ upc' = "once"
    /\ UNCHANGED <<uIn, uTwice>>
    /\ UNCHANGED <<crawlVars, funnelVars, runVars, smVars, rbVars>>

\* stripUtm(stripUtm(u))
StripAgain ==
    /\ upc = "once"
    /\ uTwice' = stripUtm(uOut)
    /\ upc' = "twice"
    /\ UNCHANGED <<uIn, uOut>>
    /\ UNCHANGED <<crawlVars, funnelVars, runVars, smVars, rbVars>>

UrlSteps == StripOnce \/ StripAgain

(***************************************************************************)
(* crawl.ts: crawlInternalLinks on a site whose seed page has about        *)
(* maxQueue links.  The crawl is taken up at the while test that follows   *)
(* the expansion of the seed: the seed is emitted and its link targets,    *)
(* the second of them under /admin, are queued at depth 1.                 *)
(***************************************************************************)
QueueSizes == {maxQueue - 2, maxQueue - 1, maxQueue, maxQueue + 1}

\* the link targets of the seed page, n of them
SeedLinks(n) ==
    [i \in 1..n |-> Url("https:", SiteHost, IF i = 2 THEN "/admin/x" ELSE PageName(i), <<>>)]

QueueStart ==
    /\ base = normalizeUrl(Href("abs", "https:", SiteHost, "/", <<>>, ""))
    /\ robots = Rules(<<>>, <<"/admin">>)
    /\ maxPages \in 2..MaxPagesArg
    /\ maxDepth \in 1..MaxDepthArg
    /\ \E n \in QueueSizes :
          /\ q = [i \in 1..n |-> [url |-> SeedLinks(n)[i], depth |-> 1]]
          /\ seen = {stripUtm(base)} \cup Range(SeedLinks(n))
          /\ enq = <<base>> \o SeedLinks(n)
          /\ cur = [url |-> base, depth |-> 0, n |-> n]
    /\ found = <<base>>
    /\ cpc = "loop"
    /\ crawled = <<>>

(***************************************************************************)
(* Specifications                                                          *)
(***************************************************************************)
CrawlInit == CrawlStart /\ FunnelIdle /\ RunIdle /\ SmIdle /\ RbIdle /\ UrlIdle

CrawlNext == CrawlSteps

SpecCrawl == CrawlInit /\ [][CrawlNext]_vars

FunnelInit == FunnelStart /\ CrawlIdle /\ RunIdle /\ SmIdle /\ RbIdle /\ UrlIdle

FunnelNext == FunnelSteps

SpecFunnel == FunnelInit /\ [][FunnelNext]_vars

RunInitAll == RunInit /\ CrawlIdle /\ FunnelIdle /\ SmIdle /\ RbIdle /\ UrlIdle

RunNext == RunSteps

SpecRun == RunInitAll /\ [][RunNext]_vars

LimitInit == LimitStart /\ CrawlIdle /\ FunnelIdle /\ SmIdle /\ RbIdle /\ UrlIdle

LimitNext == LimitSteps

SpecLimit == LimitInit /\ [][LimitNext]_vars

SmInit == SmStart /\ CrawlIdle /\ FunnelIdle /\ RunIdle /\ RbIdle /\ UrlIdle

SmNext == SmSteps

SpecSitemap == SmInit /\ [][SmNext]_vars

\* every fetchText call settles and the loop goes on after it
SpecSitemapFair == SmInit /\ [][SmNext]_vars /\ WF_vars(SmNext)

RbInit == RbStart /\ CrawlIdle /\ FunnelIdle /\ RunIdle /\ SmIdle /\ UrlIdle

RbNext == RbSteps

SpecRobots == RbInit /\ [][RbNext]_vars

QueueInit == QueueStart /\ FunnelIdle /\ RunIdle /\ SmIdle /\ RbIdle /\ UrlIdle

SpecQueue == QueueInit /\ [][CrawlNext]_vars

UrlInit == UrlStart /\ CrawlIdle /\ FunnelIdle /\ RunIdle /\ SmIdle /\ RbIdle

UrlNext == UrlSteps

SpecUrl == UrlInit /\ [][UrlNext]_vars

(***************************************************************************)
(* Properties                                                              *)
(***************************************************************************)
NoDup(xs) == \A i, j \in 1..Len(xs) : i # j => xs[i] # xs[j]

\* C1: the crawler never emits a URL twice and never emits more than
\* maxPages URLs, in found and in the array it returns.
C1_EmitOnceWithinBudget ==
    /\ NoDup(found)
    /\ Len(found) <= maxPages
    /\ cpc = "done" => crawled = found

\* the page budget stopped a crawl that had URLs left on the queue
C1_Witness ==
    /\ cpc = "done" /\ maxPages >= 2
    /\ Len(crawled) = maxPages /\ Len(q) > 0
    /\ Cardinality(seen) > Len(enq)

\* C2 as stated: no URL is pushed on the queue twice, every queued URL has
\* its stripped form in the seen-set, and the seed URL itself is in the
\* seen-set from the start.
C2_Original ==
    /\ NoDup(enq)
    /\ \A i \in 1..Len(enq) : stripUtm(enq[i]) \in seen
    /\ cpc # "idle" => base \in seen

\* C2 amended: no URL is pushed on the queue twice; a link target is
\* pushed only if its stripped form is not in the seen-set and is added to
\* the seen-set in the same step; the stripped form of the seed URL is in
\* the seen-set from the start.
C2_EnqueueOnce ==
    /\ [](/\ NoDup(enq)
          /\ \A i \in 1..Len(enq) : stripUtm(enq[i]) \in seen
          /\ cpc # "idle" => stripUtm(base) \in seen)
    /\ [][Len(enq') > Len(enq) =>
            /\ stripUtm(enq'[Len(enq')]) \notin seen
            /\ stripUtm(enq'[Len(enq')]) \in seen']_vars

\* a seed with a tracking parameter, and two link targets queued after it
C2_Witness ==
    /\ base # stripUtm(base)
    /\ Len(enq) >= 3
    /\ cpc = "each" /\ cur.n = MaxLinks

FunnelPathOf(f) == <<f.landing>> \o f.steps

\* C6: the path of every funnel, from the landing to the conversion along
\* edges of the adjacency, has at most maxSteps edges.
C6_PathWithinBudget ==
    fpc = "built" =>
        \A k \in 1..Len(funnels) :
            LET path == FunnelPathOf(funnels[k])
            IN /\ Len(path) - 1 <= maxSteps
               /\ path[Len(path)] = funnels[k].conversion
               /\ \A i \in 1..(Len(path) - 1) :
                     path[i + 1] \in Range(Adj(adLikePages, path[i]))

\* one funnel uses the whole budget, and the landing candidate /lp, six
\* links away from the only conversion page, has no funnel
C6_Witness ==
    /\ fpc = "built"
    /\ \E k \in 1..Len(funnels) : Len(funnels[k].steps) = maxSteps
    /\ \E i \in 1..Len(adLikePages) :
          /\ adLikePages[i].finalUrl = PageUrl("/lp")
          /\ adLikePages[i].score >= AdLikeThreshold
          /\ Adj(adLikePages, PageUrl("/lp")) = <<PageUrl("/s1")>>
    /\ \A k \in 1..Len(funnels) : funnels[k].landing # PageUrl("/lp")
    /\ PageUrl("/Thank-You") \notin ByUrlKeys(adLikePages)

\* C7: no landing of a funnel matches the conversion heuristic, and every
\* landing is the finalUrl of a page with score >= 18.
C7_LandingNotConversion ==
    fpc = "built" =>
        \A k \in 1..Len(funnels) :
            /\ ~isProbablyConversion(funnels[k].landing)
            /\ \E i \in 1..Len(adLikePages) :
                  /\ adLikePages[i].finalUrl = funnels[k].landing
                  /\ adLikePages[i].score >= AdLikeThreshold

\* funnels exist, while a conversion page with score >= 18 and a link to
\* another conversion page, and a page below 18 with a link to a
\* conversion page, are among the pages
C7_Witness ==
    /\ fpc = "built" /\ funnels # <<>>
    /\ \E i \in 1..Len(adLikePages) :
          /\ isProbablyConversion(adLikePages[i].finalUrl)
          /\ adLikePages[i].score >= AdLikeThreshold
          /\ \E l \in Range(Adj(adLikePages, adLikePages[i].finalUrl)) :
                isProbablyConversion(l)
    /\ \E i \in 1..Len(adLikePages) :
          /\ adLikePages[i].score < AdLikeThreshold
          /\ \A j \in 1..Len(adLikePages) :
                adLikePages[j].finalUrl = adLikePages[i].finalUrl => j = i
          /\ \E l \in Range(Adj(adLikePages, adLikePages[i].finalUrl)) :
                isProbablyConversion(l)

\* C8: steps holds only intermediate nodes: neither the landing nor the
\* conversion URL, so a direct link gives steps = <<>>.
C8_StepsIntermediateOnly ==
    fpc = "built" =>
        \A k \in 1..Len(funnels) :
            /\ funnels[k].landing \notin Range(funnels[k].steps)
            /\ funnels[k].conversion \notin Range(funnels[k].steps)

\* the scores of the pages that can have produced funnel f as landing
LandingScores(f) ==
    {adLikePages[i].score : i \in
        {i \in 1..Len(adLikePages) :
            /\ adLikePages[i].finalUrl = f.landing
            /\ adLikePages[i].score >= AdLikeThreshold
            /\ f.confidence = Confidence(adLikePages[i].score,
                                         ByUrlGet(adLikePages, f.conversion).score, f.steps)}}

IntermediateSteps(f) == SelectSeq(f.steps, LAMBDA u : u # f.landing /\ u # f.conversion)

\* C9: confidence = min(100, round(2*landingScore + conversionScore + bonus)),
\* bonus = 10/stepCount for stepCount > 0 intermediate steps, 10 for none.
C9_ConfidenceFormula ==
    fpc = "built" =>
        \A k \in 1..Len(funnels) :
            LET f == funnels[k]
                stepCount == Len(IntermediateSteps(f))
                bonus == IF stepCount > 0 THEN RoundTenOver(stepCount) ELSE 10
            IN \E i \in 1..Len(adLikePages) :
                  /\ adLikePages[i].finalUrl = f.landing
                  /\ f.confidence =
                        Min(100, 2 * adLikePages[i].score
                                 + ByUrlGet(adLikePages, f.conversion).score + bonus)

DirectFunnel(f) == f.conversion \in Range(Adj(adLikePages, f.landing))

\* C10 as stated: a funnel whose landing links directly to its conversion
\* has a confidence above the landing score, whatever that score is.
C10_Original ==
    fpc = "built" =>
        \A k \in 1..Len(funnels) :
            DirectFunnel(funnels[k]) =>
                \A sc \in LandingScores(funnels[k]) : funnels[k].confidence > sc

\* C10 amended: a funnel whose landing links directly to its conversion
\* has a confidence above the landing score when that score is below 100.
C10_DirectAboveLanding ==
    fpc = "built" =>
        \A k \in 1..Len(funnels) :
            DirectFunnel(funnels[k]) =>
                /\ LandingScores(funnels[k]) # {}
                /\ \A sc \in LandingScores(funnels[k]) :
                      sc < 100 => funnels[k].confidence > sc

\* a direct funnel whose confidence is below the cap of 100
C10_Witness ==
    /\ fpc = "built"
    /\ \E k \in 1..Len(funnels) :
          /\ DirectFunnel(funnels[k])
          /\ funnels[k].confidence < 100
          /\ \E sc \in LandingScores(funnels[k]) : sc < 100

Pushed == {i \in 1..Len(task) : task[i].pushed}

\* every entry of checked was pushed by a task, with what its probe returned
FindingsFromTasks ==
    /\ Len(checked) = Cardinality(Pushed)
    /\ \A k \in 1..Len(checked) :
          \E i \in Pushed :
              /\ checked[k].url = candidates[i]
              /\ checked[k].status = task[i].status
              /\ checked[k].finalUrl = task[i].finalUrl

HtmlContentType(ct) == ct # "" => Includes(toLowerCase(ct), "text/html")

ErrorStatus(st) == st = 0 \/ (st >= 400 /\ st < 600)

\* C3: given a valid input URL the run never fails: the promise of
\* runFunnelFinder is rejected only for a malformed input URL.
C3_RunAlwaysReturns ==
    outcome = "rejected" => normalizeThrows(inputUrl)

\* C4 as stated: a Page Finding is created only after a probe with a 2xx
\* status and, when a content type was reported, an HTML content type.
C4_Original ==
    /\ FindingsFromTasks
    /\ \A i \in Pushed :
          /\ task[i].status >= 200 /\ task[i].status < 300
          /\ HtmlContentType(task[i].contentType)

\* C4 amended: a Page Finding is created only after a probe whose status
\* is neither 0 nor in 400..599 (a final 3xx status passes) and, when a
\* content type was reported, an HTML content type.
C4_FindingOnlyIfKept ==
    /\ FindingsFromTasks
    /\ \A i \in Pushed :
          /\ ~ErrorStatus(task[i].status)
          /\ HtmlContentType(task[i].contentType)

\* a finding with the final status 300, a finding whose content type is
\* written Text/HTML, and a candidate dropped for its PDF content type
C4_Witness ==
    /\ \E k \in 1..Len(checked) : checked[k].status = 300
    /\ \E i \in Pushed : task[i].contentType = "Text/HTML"
    /\ \E i \in 1..Len(task) :
          /\ task[i].pc = "done" /\ ~task[i].pushed
          /\ task[i].status = 200 /\ task[i].contentType = "application/pdf"

FunnelNodes(f) == {f.landing, f.conversion} \cup Range(f.steps)

\* C5: a candidate whose probe gives 4xx, 5xx or 0 gets no Page Finding:
\* no entry of checked or adLikePages has such a status, and every landing,
\* step and conversion of a funnel is the finalUrl of an entry of
\* adLikePages.
C5_ErrorStatusNeverListed ==
    /\ FindingsFromTasks
    /\ \A i \in 1..Len(task) : ErrorStatus(task[i].status) => ~task[i].pushed
    /\ \A k \in 1..Len(checked) : ~ErrorStatus(checked[k].status)
    /\ Range(adLikePages) \subseteq Range(checked)
    /\ \A k \in 1..Len(funnels) :
          \A u \in FunnelNodes(funnels[k]) :
              \E j \in 1..Len(adLikePages) :
                  /\ adLikePages[j].finalUrl = u
                  /\ ~ErrorStatus(adLikePages[j].status)

\* a run returns a funnel while one candidate was dropped for a 5xx status
C5_Witness ==
    /\ outcome = "returned" /\ funnels # <<>>
    /\ \E i \in 1..Len(task) : task[i].status = 503 /\ task[i].pc = "done"

\* C11: every landing, step and conversion of a funnel of a Run Result is
\* the finalUrl of a Page Finding of adLikePages, and every Page Finding of
\* adLikePages is a checked finding with score >= 18.
C11_FunnelsThroughAdLikeOnly ==
    outcome = "returned" =>
        /\ \A j \in 1..Len(adLikePages) :
              /\ adLikePages[j].score >= AdLikeThreshold
              /\ adLikePages[j] \in Range(checked)
        /\ \A k \in 1..Len(funnels) :
              \A u \in FunnelNodes(funnels[k]) :
                  \E j \in 1..Len(adLikePages) :
                      /\ adLikePages[j].finalUrl = u
                      /\ adLikePages[j].score >= AdLikeThreshold

\* a run returns no funnel although an ad-like landing page links to a
\* checked conversion page: that page scored below 18
C11_Witness ==
    /\ outcome = "returned" /\ funnels = <<>>
    /\ \E j \in 1..Len(adLikePages) : \E k \in 1..Len(checked) :
          /\ ~isProbablyConversion(adLikePages[j].finalUrl)
          /\ checked[k].finalUrl \in Range(adLikePages[j].ctaLinks)
          /\ isProbablyConversion(checked[k].finalUrl)
          /\ checked[k].score < AdLikeThreshold

SamePair(f, g) == f.landing = g.landing /\ f.conversion = g.conversion

\* the funnels in the order the loop over the landing candidates pushes them
Produced == RawFunnels(adLikePages, 1)

\* C12: the funnel list of a result has no two funnels with the same
\* (landing, conversion) pair, holds for every produced pair the first
\* funnel produced for it, and is sorted by confidence, descending.
C12_DedupedFirstSorted ==
    outcome = "returned" =>
        /\ \A a, b \in 1..Len(funnels) :
              a < b => /\ ~SamePair(funnels[a], funnels[b])
                       /\ funnels[a].confidence >= funnels[b].confidence
        /\ \A i \in 1..Len(Produced) : \E k \in 1..Len(funnels) : SamePair(funnels[k], Produced[i])
        /\ \A k \in 1..Len(funnels) :
              \E i \in 1..Len(Produced) :
                  /\ funnels[k] = Produced[i]
                  /\ \A j \in 1..(i - 1) : ~SamePair(Produced[j], Produced[i])

\* two findings with the same finalUrl and different scores produced two
\* funnels with the same pair and different confidences
C12_Witness ==
    /\ outcome = "returned"
    /\ \E i, j \in 1..Len(Produced) :
          /\ i < j /\ SamePair(Produced[i], Produced[j])
          /\ Produced[i].confidence # Produced[j].confidence

FetchedOk == SelectSeq(fetchLog, LAMBDA e : e.ok)

\* C13: at most maxSitemapsToFetch sitemaps are fetched successfully in
\* one call, all of them in foundSitemaps, and once that many are fetched no
\* further fetch is issued.
C13_FetchCap ==
    /\ [](/\ Len(FetchedOk) <= maxSitemapsToFetch
          /\ foundSitemaps = [i \in 1..Len(FetchedOk) |-> FetchedOk[i].sm])
    /\ [][Len(foundSitemaps) >= maxSitemapsToFetch => fetchLog' = fetchLog]_vars

\* the call returned with 20 sitemaps fetched and sitemaps left on the queue
C13_Witness ==
    /\ smpc = "done"
    /\ Len(smResult.foundSitemaps) = maxSitemapsToFetch
    /\ \E i \in 1..Len(smQueue) : smQueue[i] \notin seenSm

RootSitemap == Loc("/sitemap.xml", FALSE)

\* the child sitemaps of document sm, trimmed, first occurrences
ChildrenOf(site, sm) == ArrayFromSet(parseSitemapXml(SiteXml(site, sm)).childSitemaps)

\* C14: with fewer than 20 sitemaps fetched and no failed fetch, the call
\* on an index whose children are url sets returns the deduplicated union of
\* the page URLs of the fetched documents, foundSitemaps holds exactly the
\* fetched documents, and the children come, in the order of the index,
\* after the documents that were queued before them.
C14_IndexUnion ==
    (/\ smpc = "done" /\ smSite = "index"
     /\ Len(fetchLog) < maxSitemapsToFetch
     /\ \A i \in 1..Len(fetchLog) : fetchLog[i].ok) =>
        LET extras == SelectSeq(<<Loc("/news.xml", FALSE)>>,
                                LAMBDA e : \E i \in 1..Len(fetchLog) : fetchLog[i].sm = e)
            children == ChildrenOf("index", RootSitemap)
        IN /\ Range(smResult.urls) =
                 UNION {Range(parseSitemapXml(SiteXml("index", sm)).urls) :
                          sm \in Range(children) \cup Range(extras)}
           /\ NoDup(smResult.urls)
           /\ smResult.foundSitemaps = <<RootSitemap>> \o extras \o children
           /\ extras = <<>> => Len(smResult.foundSitemaps) = 3

\* the index and its two children were fetched, one child was on the queue
\* twice, and a page URL listed by both children is returned once
C14_Witness ==
    /\ smpc = "done" /\ smSite = "index"
    /\ Len(smResult.foundSitemaps) = 3 /\ Len(fetchLog) = 3
    /\ \A i \in 1..Len(fetchLog) : fetchLog[i].ok
    /\ Len(smUrls) = 4 /\ Len(smResult.urls) = 3

IsUserAgent(raw) == KeyOf(LineOf(raw)) = "user-agent"

\* line i is a Disallow line with a value, and the last User-agent line
\* before it has the value *
Retained(txt, i) ==
    /\ KeyOf(LineOf(txt[i])) = "disallow"
    /\ ValueOf(LineOf(txt[i])) # ""
    /\ \E j \in 1..(i - 1) :
          /\ IsUserAgent(txt[j]) /\ ValueOf(LineOf(txt[j])) = "*"
          /\ \A k \in (j + 1)..(i - 1) : ~IsUserAgent(txt[k])

IsSitemapLine(raw) == KeyOf(LineOf(raw)) = "sitemap"

\* C15: the disallow list is the values of the retained Disallow lines in
\* file order, and the sitemap list holds the URL of every Sitemap line,
\* whatever group it stands in.
C15_StarGroupOnly ==
    rpc \in {"parsed", "checked"} =>
        LET kept == SelectSeq([i \in 1..Len(robotsTxt) |-> i],
                              LAMBDA i : Retained(robotsTxt, i))
            smLines == SelectSeq(robotsTxt, IsSitemapLine)
        IN /\ parsed.disallow = [n \in 1..Len(kept) |-> ValueOf(LineOf(robotsTxt[kept[n]]))]
           /\ Range(parsed.sitemaps) =
                 {SitemapUrl(ValueOf(LineOf(smLines[n])), RobotsUrl) : n \in 1..Len(smLines)}

\* a * group with a Disallow, then a Googlebot group with a Disallow
C15_Witness ==
    /\ rpc = "parsed"
    /\ robotsTxt = <<"User-agent: *", "Disallow: /admin",
                     "user-agent: Googlebot", "DISALLOW : /secret # private">>
    /\ parsed.disallow = <<"/admin">>

\* C16: isAllowedByRobots is false for a candidate of another origin
\* whatever the rules are, and for a candidate of the same origin it is
\* false iff the path starts with a recorded disallow prefix.
C16_OriginThenPrefix ==
    rpc = "checked" =>
        LET same == cand.protocol = FunnelBase.protocol /\ cand.host = FunnelBase.host
            hit == \E i \in 1..Len(parsed.disallow) : StartsWith(cand.path, parsed.disallow[i])
        IN /\ ~same => ~allowed
           /\ same => (allowed <=> ~hit)

\* a candidate on another port is refused by rules without any prefix
C16_Witness ==
    /\ rpc = "checked"
    /\ parsed.disallow = <<>> /\ robotsTxt # <<>>
    /\ cand.host = SiteHost \o ":8443"
    /\ ~allowed

Launched == {i \in 1..Len(task) : task[i].launched}

\* C17: chromium.launch is invoked at most once in a run.
C17_LaunchAtMostOnce == Cardinality(Launched) <= 1

Disallowed(i) == ~isAllowedByRobots(baseUrl, rules, candidates[i])

\* C18: at most 4 tasks are in progress; a task whose candidate robots
\* disallows never reaches the delay and issues no network request.
C18_LimitAndRobotsFirst ==
    /\ Cardinality(Active) <= 4
    /\ \A i \in 1..Len(task) :
          Disallowed(i) =>
              /\ task[i].pc \in {"queued", "done"}
              /\ task[i].status = -1 /\ ~task[i].pushed
    /\ \A r \in requests :
          r.kind \in {"status", "html"} =>
              \E i \in 1..Len(task) : candidates[i] = r.url /\ ~Disallowed(i)

\* four tasks are in progress, one waits in the limiter, and the
\* disallowed candidate is done without a request
C18_Witness ==
    /\ Cardinality(Active) = 4
    /\ \E i \in 1..Len(task) : task[i].pc = "queued"
    /\ \E i \in 1..Len(task) : Disallowed(i) /\ task[i].pc = "done"
    /\ \E r \in requests : r.kind = "html"

\* the lines between the funnels heading and the next empty line
FunnelSection(lines) ==
    LET h == CHOOSE i \in 1..Len(lines) : lines[i] = FunnelsHeading
        e == CHOOSE i \in (h + 1)..Len(lines) :
                /\ lines[i] = ""
                /\ \A j \in (h + 1)..(i - 1) : lines[j] # ""
    IN SubSeq(lines, h + 1, e - 1)

\* C19: the funnels section holds the line (none found) iff there is no
\* funnel; otherwise it holds one line per funnel with the confidence and
\* the chain landing, intermediate steps, conversion, each URL once.
C19_ReportChains ==
    fpc = "built" =>
        LET section == FunnelSection(outputText)
        IN /\ ("(none found)" \in Range(section)) <=> (funnels = <<>>)
           /\ funnels # <<>> =>
                 /\ Len(section) = Len(funnels)
                 /\ \A k \in 1..Len(funnels) :
                       LET f == funnels[k]
                           nodes == <<f.landing>> \o IntermediateSteps(f) \o <<f.conversion>>
                       IN /\ NoDup(nodes)
                          /\ section[k] =
                                "- [" \o ToString(f.confidence) \o "] "
                                \o Join([i \in 1..Len(nodes) |-> UrlString(nodes[i])], " -> ")

\* the report of two or more funnels, one with three intermediate steps
C19_Witness ==
    /\ fpc = "built" /\ Len(funnels) >= 2
    /\ \E k \in 1..Len(funnels) : Len(IntermediateSteps(funnels[k])) = 3
    /\ Len(FunnelSection(outputText)) = Len(funnels)

\* C20: for an empty or unparsable input the run is rejected before any
\* network request and yields no result.
C20_InvalidInputRejected ==
    inputUrl.kind \in {"empty", "bad"} =>
        /\ outcome \in {"idle", "start", "rejected"}
        /\ requests = {}
        /\ task = <<>> /\ checked = <<>>
        /\ funnels = <<>> /\ outputText = <<>>

\* an unparsable input was rejected
C20_Witness ==
    /\ outcome = "rejected" /\ inputUrl.kind = "bad"
    /\ requests = {} /\ baseUrl = NoUrl

KeysOf(qy) == [i \in 1..Len(qy) |-> qy[i].k]

NotTracking(k) == k \notin utmKeys

\* C21: stripUtm removes every denylisted key from the query, keeps the
\* other parameters in their original relative order, and applying it to
\* its own result changes nothing.
C21_StripIdempotent ==
    /\ upc \in {"once", "twice"} =>
          /\ \A i \in 1..Len(uOut.query) : uOut.query[i].k \notin utmKeys
          /\ KeysOf(uOut.query) = SelectSeq(KeysOf(uIn.query), NotTracking)
          /\ [uOut EXCEPT !.query = <<>>] = [uIn EXCEPT !.query = <<>>]
    /\ upc = "twice" => uTwice = uOut

C21_Witness ==
    /\ upc = "twice"
    /\ Len(uIn.query) = 3
    /\ Cardinality({i \in 1..3 : uIn.query[i].k \in utmKeys}) = 2
    /\ \E i \in 1..3 : uIn.query[i] = Param("a", "raw")

\* the tasks that called fetchHtmlWithFallback, each for its finalUrl
Fetchers == {i \in 1..Len(task) : task[i].fetched}

\* C22: in stage 4 fetchHtmlWithFallback is called at most once per final
\* URL, for concurrent tasks and for an empty document alike.
C22_FetchOncePerFinalUrl ==
    \A i, j \in Fetchers : task[i].finalUrl = task[j].finalUrl => i = j

\* C23: a sitemap whose text cannot be parsed or whose loc entries are not
\* absolute URLs never aborts the run; the run is rejected only by what
\* happens in a scoring task.
C23_BadSitemapNeverAborts ==
    (\E i \in 1..Len(smResult.urls) : stripUtmThrows(smResult.urls[i]))
        => \/ outcome \in {"running", "returned"}
           \/ \E k \in 1..Len(task) : task[k].pc = "threw"

RECURSIVE Within(_, _, _)
\* the nodes at most k edges of the adjacency away from a node of S
Within(adPages, S, k) ==
    IF k = 0 THEN S
    ELSE Within(adPages, S \cup UNION {Range(Adj(adPages, u)) : u \in S}, k - 1)

\* a node the search from landing stops at
ConvNode(u, landing) == u # landing /\ isProbablyConversion(u)

\* the CTA links of the landing page that are conversion nodes of the graph
CtaConversions(f) ==
    LET p == ByUrlGet(adLikePages, f.landing)
    IN SelectSeq(p.ctaLinks,
                 LAMBDA l : l \in ByUrlKeys(adLikePages) /\ ConvNode(l, f.landing))

\* C24: the conversion of a funnel is a nearest conversion node: it is
\* Len(steps) edges from the landing and no conversion node is nearer; when
\* CTA links of the landing lead to conversion nodes, it is the first of
\* them, whatever the plain links of the landing lead to.
C24_NearestConversionCtaFirst ==
    fpc = "built" =>
        \A n \in 1..Len(funnels) :
           LET f == funnels[n] IN
           /\ f.conversion \in Within(adLikePages, {f.landing}, Len(f.steps))
           /\ \A c \in Within(adLikePages, {f.landing}, Len(f.steps) - 1) :
                 ~ConvNode(c, f.landing)
           /\ CtaConversions(f) # <<>> => f.conversion = Head(CtaConversions(f))

\* the landing has a plain link to one conversion page and, after it in the
\* document, a CTA link to another: the funnel ends at the CTA's target
C24_Witness ==
    /\ fpc = "built"
    /\ \E n \in 1..Len(funnels) :
          LET f == funnels[n]
              p == ByUrlGet(adLikePages, f.landing)
          IN /\ f.conversion = PageUrl("/checkout")
             /\ p.allOutLinks = <<PageUrl("/Thank-You"), PageUrl("/checkout")>>
             /\ p.ctaLinks = <<PageUrl("/checkout")>>
             /\ PageUrl("/Thank-You") \in ByUrlKeys(adLikePages)
    /\ \E n \in 1..Len(funnels) : Len(funnels[n].steps) = 3

\* the URLs waiting on the queue
Queued == {q[i].url : i \in 1..Len(q)}

\* C25: every emitted URL and every URL being expanded is same-origin with
\* the base and allowed by robots; dequeuing a URL that robots disallows
\* emits nothing and starts no expansion.
C25_RobotsBeforeEmitAndExpand ==
    /\ [](/\ \A i \in 1..Len(found) :
                /\ sameOrigin(base, found[i])
                /\ isAllowedByRobots(base, robots, found[i])
          /\ cpc = "each" => isAllowedByRobots(base, robots, cur.url))
    /\ [][(cpc = "loop" /\ q # <<>> /\ ~isAllowedByRobots(base, robots, Head(q).url))
            => (found' = found /\ cur' = cur /\ cpc' # "each")]_vars

\* a disallowed URL was queued and dequeued, and other URLs were emitted
C25_Witness ==
    /\ cpc = "done" /\ Len(found) >= 2
    /\ \E i \in 1..Len(enq) :
          /\ ~isAllowedByRobots(base, robots, enq[i])
          /\ enq[i] \notin Queued
          /\ enq[i] \notin Range(found)

\* C26: no queued URL is deeper than maxDepth and no page at maxDepth is
\* expanded; every allowed URL that is dequeued is emitted, whatever its
\* fetch does, and one at depth maxDepth is emitted without a fetch and
\* without link extraction.
C26_LeavesEmittedNotExpanded ==
    /\ [](/\ \A i \in 1..Len(q) : q[i].depth <= maxDepth
          /\ cpc = "each" => cur.depth < maxDepth)
    /\ [][(cpc = "loop" /\ CrawlCond /\ isAllowedByRobots(base, robots, Head(q).url))
            => /\ found' = Append(found, Head(q).url)
               /\ Head(q).depth >= maxDepth =>
                     (cpc' = "loop" /\ cur' = cur /\ enq' = enq /\ seen' = seen)]_vars

\* the seed was expanded and its two link targets, at depth maxDepth, were
\* emitted and left unexpanded
C26_Witness ==
    /\ cpc = "done" /\ maxDepth = 1 /\ q = <<>>
    /\ Len(found) = 3 /\ Len(enq) = 3
    /\ cur.url = base

\* C27 as stated: the crawl loop ends only with an empty queue, with
\* maxPages URLs emitted, or with more than maxQueue URLs pending.
C27_Original ==
    cpc = "done" => (q = <<>> \/ Len(found) >= maxPages \/ Len(q) > maxQueue)

\* C27 amended: the crawl loop ends only with an empty queue, with maxPages
\* URLs emitted, or with maxQueue or more URLs pending at the while test;
\* with maxQueue or more pending at the while test it does end, and emits
\* nothing more.
C27_StopsAtCeiling ==
    /\ [](cpc = "done" => (q = <<>> \/ Len(found) >= maxPages \/ Len(q) >= maxQueue))
    /\ [][(cpc = "loop" /\ Len(q) >= maxQueue)
            => (cpc' = "done" /\ found' = found /\ q' = q)]_vars

\* a page was expanded after the seed, the queue grew to exactly maxQueue
\* and the crawl returned with page budget left
C27_Witness ==
    /\ cpc = "done" /\ Len(q) = maxQueue
    /\ Len(found) = 2 /\ Len(found) < maxPages
    /\ Len(enq) > maxQueue + 1

\* C28: discoverSitemapUrls returns for every site, and no sitemap URL is
\* fetched twice in one call.
C28_TerminatesNoRefetch ==
    /\ <>(smpc = "done")
    /\ [](\A i, j \in 1..Len(fetchLog) : fetchLog[i].sm = fetchLog[j].sm => i = j)

\* the call returned on the site whose indexes reference each other, after
\* fetching each of its three sitemaps once
C28_Witness ==
    /\ smpc = "done" /\ smSite = "cycle"
    /\ Len(fetchLog) = 3 /\ Len(smResult.foundSitemaps) = 3
    /\ Cardinality(seenSm) = 3

\* C29: the finalUrl of every finding is its own tracking-stripped form,
\* and whenever an ad-like page links to the stripped URL of another
\* ad-like page, the adjacency has the edge between the two nodes.
C29_NodeKeysStripped ==
    /\ \A i \in 1..Len(checked) : stripUtm(checked[i].finalUrl) = checked[i].finalUrl
    /\ outcome = "returned" =>
          \A i, j \in 1..Len(adLikePages) :
             stripUtm(adLikePages[j].finalUrl) \in Range(adLikePages[i].allOutLinks)
                => adLikePages[j].finalUrl
                      \in Range(Adj(adLikePages, adLikePages[i].finalUrl))

====
